---- MODULE Spec2Model ----
(***************************************************************************)
(* Index-fund factory and fund-token unit (NEAR contracts).                *)
(*                                                                         *)
(*   src/factory/src/lib.rs   IndexFundFactory: create_fund saga,          *)
(*                            on_fund_created_callback, get_fund(s)        *)
(*   src/token/src/lib.rs     Contract: deposits priced by an oracle,      *)
(*                            withdrawals, MPC signing                     *)
(*                                                                         *)
(* A handler that panics leaves the contract state as it was (the host     *)
(* reverts the receipt and dispatches none of the promises it created);    *)
(* the model records the panic in last_call and changes nothing else.      *)
(*                                                                         *)
(* NearToken amounts are counted in units of 10^19 yoctoNEAR, the price of *)
(* one byte of storage (NEAR_PER_STORAGE), so that they fit TLC's integers.*)
(***************************************************************************)
EXTENDS Integers, Sequences, FiniteSets, TLC

VARIABLES
    overflow_checks,        \* build profile: are integer overflows checked (panic) or wrapped
    usize_bits,             \* build target: the width of usize (32 on wasm32, 64 on a host)
    fund_creation_deposit,  \* IndexFundFactory.fund_creation_deposit
    funds,                  \* IndexFundFactory.funds, in insertion order: Seq of [key, value]
    accounts,               \* unit accounts the host has created
    sagas,                  \* create_fund sagas: the promise chain of each and where it stands
    assets,                 \* Contract.assets
    total_assets,           \* Contract.total_assets
    owner_id,               \* Contract.owner_id
    user_balances,          \* Contract.user_balances: account -> (contract address -> U128)
    latest_signed_txs,      \* Contract.latest_signed_txs
    deposits,               \* deposit promise chains of the unit and where each stands
    signs,                  \* signing requests of the unit and where each stands
    last_call               \* the last call handled: outcome, result, promises it created

fvars == <<fund_creation_deposit, funds, accounts, sagas>>

\* the state of the unit's contract
cvars == <<assets, total_assets, owner_id, user_balances, latest_signed_txs>>

tvars == <<cvars, deposits, signs>>

\* what the build fixes
build == <<overflow_checks, usize_bits>>

vars == <<build, fvars, tvars, last_call>>

----------------------------------------------------------------------------
(* Bounds of the model *)

MaxSagas == 1

MaxBlockTime == 1

\* deposits the unit takes on
MaxDeposits == 1

\* signing requests the unit issues
MaxSigns == 2

\* Length of the unit's wasm binary (include_bytes!, the binary is not part of the sources)
TokenWasmLen == 3

----------------------------------------------------------------------------
(* Program constants *)

\* 10^19 yoctoNEAR per byte: the unit of every NearToken amount of the model
NEAR_PER_STORAGE == 1

\* NearToken::from_millinear(100) = 10^23 yoctoNEAR = 10^4 units
STORAGE_BUFFER == 10000

NO_DEPOSIT == 0

U8_MODULUS == 256

\* usize of the wasm32 target the contracts are deployed from, and of a 64-bit host
WASM32_USIZE_BITS == 32

HOST_USIZE_BITS == 64

U64_BITS == 64

FACTORY == "factory.near"

NoKey == "none"

Users == {"alice.near", "bob.near"}

PublicKeys == {NoKey, "ed25519:pk1"}

\* "Bad!" does not make a valid account id
Prefixes == {"fa", "fb", "Bad!"}

\* prefixes the host accepts in the id of a sub-account
FundPrefixes == {"fa", "fb", "fc"}

BlockTimes == 1..MaxBlockTime

Asset(n, a, w) == [name |-> n, contract_address |-> a, weight |-> w]

Metadata(n, as) == [name |-> n, symbol |-> n, description |-> "none", assets |-> as]

Metadatas ==
    { Metadata("F6040", <<Asset("ETH", "0xAa", 60), Asset("AURORA", "0xbb", 40)>>),
      Metadata("F3030", <<Asset("ETH", "0xAa", 30), Asset("BTC", "0xcc", 30)>>),
      Metadata("FWRAP", <<Asset("ETH", "0xAa", 200), Asset("AURORA", "0xbb", 156)>>) }

----------------------------------------------------------------------------
(* Helpers *)

Panic(m) == [tag |-> "panic", msg |-> m]

IsPanic(r) == r.tag = "panic"

RECURSIVE SumWeights(_)
\* the sum of the weights as unbounded integers
SumWeights(as) == IF as = <<>> THEN 0 ELSE as[1].weight + SumWeights(Tail(as))

\* u8 + u8: checked builds panic on overflow, unchecked builds wrap
u8_add(a, b) ==
    IF a + b < U8_MODULUS THEN [ok |-> TRUE, val |-> a + b]
    ELSE IF overflow_checks THEN [ok |-> FALSE, val |-> 0]
    ELSE [ok |-> TRUE, val |-> (a + b) % U8_MODULUS]

RECURSIVE sum_u8(_, _)
\* assets.iter().map(|a| a.weight).sum() accumulated in a u8
sum_u8(as, acc) ==
    IF as = <<>> THEN [ok |-> TRUE, val |-> acc]
    ELSE LET s == u8_add(acc, as[1].weight)
         IN  IF s.ok THEN sum_u8(Tail(as), s.val) ELSE s

total_weight(as) == sum_u8(as, 0)

\* format!("{}.{}", prefix, env::current_account_id())
subaccount_id(prefix) == prefix \o "." \o FACTORY

\* AccountId::from_str: the ids the host's account-id rules accept
ValidAccountId(id) == id \in {subaccount_id(p) : p \in FundPrefixes}

\* storage_cost + 0.1 NEAR (saturating_mul and saturating_add never saturate for a
\* code size below 2^64)
minimum_needed == NEAR_PER_STORAGE * TokenWasmLen + STORAGE_BUFFER

\* The creation fees the factory is configured with: one below, one above the
\* storage cost
FundCreationDeposits == {5, 2 * minimum_needed}

\* Attached deposits: below both thresholds, between them, at the storage cost
Deposits == {4, minimum_needed - 1, minimum_needed}

\* IterableMap: position of a key, 0 when absent
RECURSIVE IndexOfKey(_, _, _)
IndexOfKey(m, k, i) ==
    IF i > Len(m) THEN 0 ELSE IF m[i].key = k THEN i ELSE IndexOfKey(m, k, i + 1)

contains_key(m, k) == IndexOfKey(m, k, 1) # 0

\* IterableMap::insert: a new key is appended, an existing key keeps its place and
\* gets the new value
insert(m, k, v) ==
    LET i == IndexOfKey(m, k, 1)
    IN  IF i = 0 THEN Append(m, [key |-> k, value |-> v])
        ELSE [m EXCEPT ![i] = [key |-> k, value |-> v]]

None == [some |-> FALSE]

Some(v) == [some |-> TRUE, value |-> v]

----------------------------------------------------------------------------
(* IndexFundFactory: src/factory/src/lib.rs *)

\* The batch create_fund hands to the host: one receipt on the new sub-account
deploy_batch(sub, predecessor, deposit, metadata, public_key) ==
    [ kind |-> "batch",
      receiver_id |-> sub,
      actions |->
          << [action |-> "create_account"],
             [action |-> "transfer", amount |-> deposit],
             [action |-> "deploy_contract", code |-> "DEFAULT_TOKEN_WASM"],
             [action |-> "function_call", method |-> "new",
              args |-> <<predecessor, metadata.assets>>, deposit |-> NO_DEPOSIT] >>
          \o (IF public_key # NoKey
              THEN << [action |-> "add_full_access_key", key |-> public_key] >>
              ELSE << >>) ]

\* Mutant of create_fund: the storage-cost check is left out
create_fund_no_storage_check(predecessor, deposit, prefix, metadata, public_key) ==
    LET tw  == total_weight(metadata.assets)
        sub == subaccount_id(prefix)
    IN  IF ~(deposit >= fund_creation_deposit)
            THEN Panic("Insufficient deposit for fund creation")
        ELSE IF ~tw.ok
            THEN Panic("attempt to add with overflow")
        ELSE IF tw.val # 100
            THEN Panic("Total weight must be 100%")
        ELSE IF ~ValidAccountId(sub)
            THEN Panic("called Result::unwrap() on an Err value")
        ELSE [ tag |-> "ok",
               promises |-> << deploy_batch(sub, predecessor, deposit, metadata,
                                            public_key) >>,
               callback |-> [prefix |-> prefix, metadata |-> metadata,
                             token_address |-> sub] ]

\* create_fund: the validation, then the batch and the one callback registered on it
create_fund(predecessor, deposit, prefix, metadata, public_key) ==
    LET tw  == total_weight(metadata.assets)
        sub == subaccount_id(prefix)
    IN  IF ~(deposit >= fund_creation_deposit)
            THEN Panic("Insufficient deposit for fund creation")
        ELSE IF ~tw.ok
            THEN Panic("attempt to add with overflow")
        ELSE IF tw.val # 100
            THEN Panic("Total weight must be 100%")
        ELSE IF ~(deposit >= minimum_needed)
            THEN Panic("Attach at least minimum_needed")
        ELSE IF ~ValidAccountId(sub)
            THEN Panic("called Result::unwrap() on an Err value")
        ELSE [ tag |-> "ok",
               promises |-> << deploy_batch(sub, predecessor, deposit, metadata,
                                            public_key) >>,
               callback |-> [prefix |-> prefix, metadata |-> metadata,
                             token_address |-> sub] ]

\* What env:: gives a callback the factory scheduled on itself with
\* Self::ext(env::current_account_id()): the factory is the predecessor and no
\* deposit is attached
callback_env(now) ==
    [ predecessor_account_id |-> FACTORY,
      attached_deposit |-> NO_DEPOSIT,
      block_timestamp |-> now ]

\* Mutant of on_fund_created_callback: the refund is issued on both branches
on_fund_created_callback_always_refunds(prefix, metadata, token_address, result, env) ==
    LET refund == << [ kind |-> "transfer",
                       receiver_id |-> env.predecessor_account_id,
                       amount |-> env.attached_deposit ] >>
    IN  IF result = "Ok"
        THEN [ funds |-> insert(funds, prefix,
                                [ metadata |-> metadata,
                                  token_address |-> token_address,
                                  total_supply |-> 0,
                                  creation_timestamp |-> env.block_timestamp ]),
               inserts |-> 1, promises |-> refund, ret |-> TRUE ]
        ELSE [ funds |-> funds, inserts |-> 0, promises |-> refund, ret |-> FALSE ]

\* Mutant of on_fund_created_callback: the record is keyed by the unit's account id
on_fund_created_callback_keyed_by_address(prefix, metadata, token_address, result, env) ==
    IF result = "Ok"
    THEN [ funds |-> insert(funds, token_address,
                            [ metadata |-> metadata,
                              token_address |-> token_address,
                              total_supply |-> 0,
                              creation_timestamp |-> env.block_timestamp ]),
           inserts |-> 1, promises |-> << >>, ret |-> TRUE ]
    ELSE [ funds |-> funds, inserts |-> 0,
           promises |-> << [ kind |-> "transfer",
                             receiver_id |-> env.predecessor_account_id,
                             amount |-> env.attached_deposit ] >>,
           ret |-> FALSE ]

\* Mutant of on_fund_created_callback: the fund is registered whatever the result
on_fund_created_callback_always_inserts(prefix, metadata, token_address, result, env) ==
    [ funds |-> insert(funds, prefix,
                       [ metadata |-> metadata,
                         token_address |-> token_address,
                         total_supply |-> 0,
                         creation_timestamp |-> env.block_timestamp ]),
      inserts |-> 1, promises |-> << >>, ret |-> TRUE ]

\* on_fund_created_callback: the registry afterwards, the number of insertions, the
\* promises created, the result
\* Mutant of on_fund_created_callback: the failure branch issues no transfer
on_fund_created_callback_no_refund(prefix, metadata, token_address, result, env) ==
    IF result = "Ok"
    THEN [ funds |-> insert(funds, prefix,
                            [ metadata |-> metadata,
                              token_address |-> token_address,
                              total_supply |-> 0,
                              creation_timestamp |-> env.block_timestamp ]),
           inserts |-> 1, promises |-> << >>, ret |-> TRUE ]
    ELSE [ funds |-> funds, inserts |-> 0, promises |-> << >>, ret |-> FALSE ]

on_fund_created_callback(prefix, metadata, token_address, result, env) ==
    IF result = "Ok"
    THEN [ funds |-> insert(funds, prefix,
                            [ metadata |-> metadata,
                              token_address |-> token_address,
                              total_supply |-> 0,
                              creation_timestamp |-> env.block_timestamp ]),
           inserts |-> 1, promises |-> << >>, ret |-> TRUE ]
    ELSE [ funds |-> funds, inserts |-> 0,
           promises |-> << [ kind |-> "transfer",
                             receiver_id |-> env.predecessor_account_id,
                             amount |-> env.attached_deposit ] >>,
           ret |-> FALSE ]

\* get_fund: self.funds.get(&prefix).cloned()
get_fund(prefix) ==
    LET i == IndexOfKey(funds, prefix, 1)
    IN  IF i = 0 THEN None ELSE Some(funds[i].value)

\* A boolean result as the host serialises it
Json(b) == IF b THEN "true" ELSE "false"

\* last_call of a call that went through
Returned(op, saga, value, promises) ==
    [ op |-> op, saga |-> saga, outcome |-> "ok", value |-> value, promises |-> promises,
      deposit |-> 0, metadata |-> "none" ]

\* last_call of a call that panicked: nothing it did persists, no promise is dispatched
Panicked(op, msg) ==
    [ op |-> op, saga |-> 0, outcome |-> "panic", value |-> msg, promises |-> << >>,
      deposit |-> 0, metadata |-> "none" ]

\* last_call of a create_fund call: the outcome with the deposit attached and the metadata
WithArgs(call, deposit, metadata) ==
    [call EXCEPT !.deposit = deposit, !.metadata = metadata]

FactoryInit ==
    /\ overflow_checks \in BOOLEAN
    /\ usize_bits = WASM32_USIZE_BITS
    /\ fund_creation_deposit \in FundCreationDeposits
    /\ funds = << >>
    /\ accounts = {}
    /\ sagas = << >>
    /\ assets = << >>
    /\ total_assets = 0
    /\ owner_id = "none"
    /\ user_balances = << >>
    /\ latest_signed_txs = << >>
    /\ deposits = << >>
    /\ signs = << >>
    /\ last_call = Returned("new", 0, "none", << >>)

\* A user calls create_fund with an attached deposit, while the model follows fewer
\* than max sagas
CreateFundUpTo(max, caller, deposit, prefix, metadata, public_key) ==
    LET r == create_fund(caller, deposit, prefix, metadata, public_key)
    IN  IF IsPanic(r)
        THEN /\ last_call' = WithArgs(Panicked("create_fund", r.msg), deposit, metadata)
             /\ UNCHANGED <<build, fvars, tvars>>
        ELSE /\ Len(sagas) < max
             /\ sagas' = Append(sagas,
                    [ caller |-> caller, deposit |-> deposit,
                      prefix |-> r.callback.prefix, metadata |-> r.callback.metadata,
                      token_address |-> r.callback.token_address,
                      stage |-> "deploying", result |-> "none", ret |-> "none",
                      callback_runs |-> 0, inserts |-> 0, refunds |-> 0 ])
             /\ last_call' = WithArgs(Returned("create_fund", Len(sagas) + 1, "promise",
                                            r.promises), deposit, metadata)
             /\ UNCHANGED <<build, fund_creation_deposit, funds, accounts, tvars>>

\* A user calls create_fund with an attached deposit
CreateFund(caller, deposit, prefix, metadata, public_key) ==
    CreateFundUpTo(MaxSagas, caller, deposit, prefix, metadata, public_key)

\* The host runs the batch of saga i on the sub-account: all of its actions take
\* effect, or none does. create_account fails when the account exists.
DeployBatch(i, ok) ==
    /\ sagas[i].stage = "deploying"
    /\ ok => sagas[i].token_address \notin accounts
    /\ sagas' = [sagas EXCEPT ![i].stage = "resolved",
                              ![i].result = IF ok THEN "Ok" ELSE "Failed"]
    /\ accounts' = IF ok THEN accounts \cup {sagas[i].token_address} ELSE accounts
    /\ last_call' = Returned("deploy_batch", i, IF ok THEN "Ok" ELSE "Failed", << >>)
    /\ UNCHANGED <<build, fund_creation_deposit, funds, tvars>>

\* The host delivers the result of saga i's batch to on_fund_created_callback
OnFundCreatedCallback(i, now) ==
    /\ sagas[i].stage = "resolved"
    /\ LET s == sagas[i]
           r == on_fund_created_callback(s.prefix, s.metadata, s.token_address,
                                         s.result, callback_env(now))
       IN  /\ funds' = r.funds
           /\ sagas' = [sagas EXCEPT
                  ![i].stage = "done", ![i].ret = Json(r.ret),
                  ![i].callback_runs = @ + 1,
                  ![i].inserts = @ + r.inserts,
                  ![i].refunds = @ + Len(r.promises)]
           /\ last_call' = Returned("on_fund_created_callback", i, Json(r.ret), r.promises)
    /\ UNCHANGED <<build, fund_creation_deposit, accounts, tvars>>

\* #[private]: on_fund_created_callback called by any account but the factory panics
PrivateCallRejected(caller) ==
    /\ caller # FACTORY
    /\ last_call' = Panicked("on_fund_created_callback", "Method is private")
    /\ UNCHANGED <<build, fvars, tvars>>

FactoryNext ==
    \/ \E c \in Users, d \in Deposits, p \in Prefixes, m \in Metadatas, k \in PublicKeys :
           CreateFund(c, d, p, m, k)
    \/ \E i \in 1..Len(sagas), ok \in BOOLEAN : DeployBatch(i, ok)
    \/ \E i \in 1..Len(sagas), now \in BlockTimes : OnFundCreatedCallback(i, now)
    \/ \E c \in Users : PrivateCallRejected(c)

Init == FactoryInit

Next == FactoryNext

Spec == Init /\ [][Next]_vars

----------------------------------------------------------------------------
(* The factory with several sagas, also for one prefix *)

\* the sagas followed when several are under way
MaxRegistrySagas == 2

\* two funds whose weights sum to 100
RegistryMetadatas ==
    { Metadata("F6040", << Asset("ETH", "0xAa", 60), Asset("AURORA", "0xbb", 40) >>),
      Metadata("F2971", << Asset("ETH", "0xAa", 29), Asset("AURORA", "0xbb", 71) >>) }

RegistryNext ==
    \/ \E c \in Users, p \in {"fa", "fb"}, m \in RegistryMetadatas :
           CreateFundUpTo(MaxRegistrySagas, c, minimum_needed, p, m, NoKey)
    \/ \E i \in 1..Len(sagas), ok \in BOOLEAN : DeployBatch(i, ok)
    \/ \E i \in 1..Len(sagas), now \in BlockTimes : OnFundCreatedCallback(i, now)

SpecRegistry == FactoryInit /\ [][RegistryNext]_vars

\* The host executes every receipt it holds: the batch of a saga is run, and the
\* result of a batch that has run is delivered to the callback registered on it
HostRunsReceipts ==
    /\ WF_vars(\E i \in 1..Len(sagas), ok \in BOOLEAN : DeployBatch(i, ok))
    /\ WF_vars(\E i \in 1..Len(sagas), now \in BlockTimes : OnFundCreatedCallback(i, now))

SpecRegistryLive == SpecRegistry /\ HostRunsReceipts

----------------------------------------------------------------------------
(* Natural numbers too wide for TLC's integers, as little-endian sequences of     *)
(* 15-bit limbs: the significands of f64 values                                  *)

LIMB == 2^15

RECURSIVE BNFromNat(_)
BNFromNat(n) == IF n = 0 THEN << >> ELSE << n % LIMB >> \o BNFromNat(n \div LIMB)

RECURSIVE BNTrim(_)
\* without leading zero limbs
BNTrim(a) ==
    IF a = << >> THEN a
    ELSE IF a[Len(a)] = 0 THEN BNTrim(SubSeq(a, 1, Len(a) - 1)) ELSE a

BNLimb(a, i) == IF i <= Len(a) THEN a[i] ELSE 0

RECURSIVE BNCmpFrom(_, _, _)
\* -1, 0, 1 as a < b, a = b, a > b, comparing limbs i, i-1, .. 1
BNCmpFrom(a, b, i) ==
    IF i = 0 THEN 0
    ELSE IF BNLimb(a, i) < BNLimb(b, i) THEN -1
    ELSE IF BNLimb(a, i) > BNLimb(b, i) THEN 1
    ELSE BNCmpFrom(a, b, i - 1)

BNCmp(a, b) == BNCmpFrom(a, b, IF Len(a) > Len(b) THEN Len(a) ELSE Len(b))

RECURSIVE BNSubFrom(_, _, _, _)
\* a - b for a >= b, from limb i on with the borrow
BNSubFrom(a, b, i, borrow) ==
    IF i > Len(a) THEN << >>
    ELSE LET d == a[i] - BNLimb(b, i) - borrow
         IN  IF d < 0 THEN << d + LIMB >> \o BNSubFrom(a, b, i + 1, 1)
             ELSE << d >> \o BNSubFrom(a, b, i + 1, 0)

BNSub(a, b) == BNTrim(BNSubFrom(a, b, 1, 0))

RECURSIVE BNMulFrom(_, _, _, _)
\* a * k for 0 <= k < LIMB, from limb i on with the carry
BNMulFrom(a, k, i, carry) ==
    IF i > Len(a) THEN BNFromNat(carry)
    ELSE LET d == a[i] * k + carry
         IN  << d % LIMB >> \o BNMulFrom(a, k, i + 1, d \div LIMB)

BNMulSmall(a, k) == BNTrim(BNMulFrom(a, k, 1, 0))

\* 2a + bit
BNShl1(a, bit) == BNTrim(BNMulFrom(a, 2, 1, bit))

LIMB_BITS == 15

\* a div 2^n
BNShr(a, n) ==
    LET whole == n \div LIMB_BITS
        k     == n % LIMB_BITS
        b     == IF whole >= Len(a) THEN << >> ELSE SubSeq(a, whole + 1, Len(a))
    IN  BNTrim([i \in 1..Len(b) |->
                  (b[i] \div 2^k) + (BNLimb(b, i + 1) % 2^k) * 2^(LIMB_BITS - k)])

\* bit j of a, bit 0 the lowest
BNBit(a, j) == (BNLimb(a, (j \div LIMB_BITS) + 1) \div 2^(j % LIMB_BITS)) % 2

BNOdd(a) == BNBit(a, 0) = 1

RECURSIVE BitLenNat(_)
BitLenNat(n) == IF n = 0 THEN 0 ELSE 1 + BitLenNat(n \div 2)

\* number of bits of a trimmed number
BNBitLen(a) == IF a = << >> THEN 0 ELSE LIMB_BITS * (Len(a) - 1) + BitLenNat(a[Len(a)])

\* a * 2^n
BNShl(a, n) ==
    IF a = << >> THEN a
    ELSE BNMulSmall([i \in 1..(n \div LIMB_BITS) |-> 0] \o a, 2^(n % LIMB_BITS))

\* the value of a number of at most 30 bits
BNToNat(a) == BNLimb(a, 1) + LIMB * BNLimb(a, 2)

RECURSIVE BNAddFrom(_, _, _, _)
BNAddFrom(a, b, i, carry) ==
    IF i > Len(a) /\ i > Len(b) THEN BNFromNat(carry)
    ELSE LET d == BNLimb(a, i) + BNLimb(b, i) + carry
         IN  << d % LIMB >> \o BNAddFrom(a, b, i + 1, d \div LIMB)

BNAdd(a, b) == BNTrim(BNAddFrom(a, b, 1, 0))

RECURSIVE BNMul(_, _)
BNMul(a, b) ==
    IF a = << >> THEN << >>
    ELSE BNAdd(BNMulSmall(b, a[1]), BNTrim(<< 0 >> \o BNMul(Tail(a), b)))

\* a div 2^n for n > 0, with the last bit shifted out (guard) and whether any bit
\* shifted out before it was set (sticky)
BNShrSticky(a, n, sticky) ==
    [m      |-> BNShr(a, n),
     guard  |-> BNBit(a, n - 1) = 1,
     sticky |-> sticky \/ \E j \in 0..(n - 2) : BNBit(a, j) = 1]

----------------------------------------------------------------------------
(* f64: IEEE 754 binary64 restricted to the values >= 0, infinity and NaN that the *)
(* allocation arithmetic produces. A number is m * 2^e with a significand m of at  *)
(* most 53 bits; every operation rounds to nearest, ties to even.                  *)

F64_MANT_BITS == 53

U128_BITS == 128

F64_DIV_STEP == 11

\* u128::MAX. A u128 is held as an integer x: x >= 0 stands for x, x < 0 for 2^128 + x;
\* the model reaches only values within 2^30 of a multiple of 2^128.
U128_MAX == -1

f64_num(m, e) == [kind |-> "num", m |-> m, e |-> e]

f64_inf == [kind |-> "inf", m |-> << >>, e |-> 0]

f64_nan == [kind |-> "nan", m |-> << >>, e |-> 0]

f64_is_zero(x) == x.kind = "num" /\ x.m = << >>

\* the significand r.m rounded up when the bits shifted out of it are above one half,
\* or are one half and r.m is odd
f64_round_up(r, e) ==
    f64_num(IF r.guard /\ (r.sticky \/ BNOdd(r.m)) THEN BNAdd(r.m, << 1 >>) ELSE r.m, e)

\* m * 2^e rounded to 53 significant bits; sticky: the exact value is above m * 2^e
\* by less than 2^e
f64_round(m, e, sticky) ==
    IF BNBitLen(m) <= F64_MANT_BITS THEN f64_num(m, e)
    ELSE f64_round_up(BNShrSticky(m, BNBitLen(m) - F64_MANT_BITS, sticky),
                      e + BNBitLen(m) - F64_MANT_BITS)

\* u8, u64 or u128 as f64, for a value below 2^30 (exact)
f64_from(n) == f64_num(BNFromNat(n), 0)

RECURSIVE f64_div_bits(_, _, _, _)
\* n more quotient bits of r / d, for r < 2d
f64_div_bits(r, d, n, q) ==
    IF n = 0 THEN [q |-> q, r |-> r]
    ELSE IF BNCmp(r, d) >= 0
         THEN f64_div_bits(BNShl1(BNSub(r, d), 0), d, n - 1, BNShl1(q, 1))
         ELSE f64_div_bits(BNShl1(r, 0), d, n - 1, BNShl1(q, 0))

\* eleven more quotient bits after the quotient and remainder qr
f64_div_step(qr, d) == f64_div_bits(qr.r, d, F64_DIV_STEP, qr.q)

\* the quotient q * 2^e, the remainder telling whether it is exact
f64_div_rounded(qr, e) == f64_round(qr.q, e, qr.r # << >>)

\* (r * 2^er) / (d * 2^ed) for d <= r < 2d: 55 quotient bits, the first of them 1
f64_div_normal(r, er, d, ed) ==
    f64_div_rounded(
        f64_div_step(f64_div_step(f64_div_step(f64_div_step(f64_div_step(
            [q |-> << >>, r |-> r], d), d), d), d), d),
        er - ed - (F64_MANT_BITS + 1))

\* (ma * 2^ea) / (mb * 2^eb) for significands of equal length
f64_div_aligned(ma, ea, mb, eb) ==
    IF BNCmp(ma, mb) < 0 THEN f64_div_normal(BNShl1(ma, 0), ea - 1, mb, eb)
    ELSE f64_div_normal(ma, ea, mb, eb)

\* a / b for numbers other than zero, la and lb the lengths of their significands
f64_div_num(a, b, la, lb) ==
    IF la < lb THEN f64_div_aligned(BNShl(a.m, lb - la), a.e - (lb - la), b.m, b.e)
    ELSE f64_div_aligned(a.m, a.e, BNShl(b.m, la - lb), b.e - (la - lb))

\* a / b
f64_div(a, b) ==
    IF a.kind = "nan" \/ b.kind = "nan" THEN f64_nan
    ELSE IF a.kind = "inf" THEN (IF b.kind = "inf" THEN f64_nan ELSE f64_inf)
    ELSE IF b.kind = "inf" THEN f64_num(<< >>, 0)
    ELSE IF f64_is_zero(b) THEN (IF f64_is_zero(a) THEN f64_nan ELSE f64_inf)
    ELSE IF f64_is_zero(a) THEN f64_num(<< >>, 0)
    ELSE f64_div_num(a, b, BNBitLen(a.m), BNBitLen(b.m))

\* a * b
f64_mul(a, b) ==
    IF a.kind = "nan" \/ b.kind = "nan" THEN f64_nan
    ELSE IF a.kind = "inf" \/ b.kind = "inf"
         THEN (IF f64_is_zero(a) \/ f64_is_zero(b) THEN f64_nan ELSE f64_inf)
    ELSE IF f64_is_zero(a) \/ f64_is_zero(b) THEN f64_num(<< >>, 0)
    ELSE f64_round(BNMul(a.m, b.m), a.e + b.e, FALSE)

\* a number m * 2^e as u128, len the length of m: 2^128 or more gives u128::MAX, any
\* other value is truncated (the model reaches truncated values below 2^30 only)
f64_num_as_u128(m, e, len) ==
    IF len + e > U128_BITS THEN U128_MAX
    ELSE IF len + e <= 0 THEN 0
    ELSE IF e >= 0 THEN BNToNat(BNShl(m, e))
    ELSE BNToNat(BNShr(m, 0 - e))

\* x as u128: NaN gives 0, infinity u128::MAX
f64_as_u128(x) ==
    IF x.kind = "nan" THEN 0
    ELSE IF x.kind = "inf" THEN U128_MAX
    ELSE f64_num_as_u128(x.m, x.e, BNBitLen(x.m))

----------------------------------------------------------------------------
(* Contract, the fund's unit: src/token/src/lib.rs *)

\* env::current_account_id() of the unit
TOKEN == "fa.factory.near"

USDC_CONTRACT == "3e2210e1184b45b64c8a434c0a7e7b23cc04ea7eb7a6c3c32520d03d4afcb8af"

ORACLE_CONTRACT == "priceoracle.testnet"

MPC_CONTRACT_ACCOUNT_ID == "v1.signer-prod.testnet"

ETH_TREASURY_PATH == "eth-treasury"

AURORA_TREASURY_PATH == "aurora-treasury"

NANOS_PER_SEC == 1000000000

\* NearToken::from_yoctonear(200000000000000000000000), in units of 10^19 yoctoNEAR
SIGN_DEPOSIT == 20000

\* The asset lists a unit is constructed with: 60/40, 29/71, weights whose u8 sum wraps
\* to 100, two assets at one contract address
AssetConfigs ==
    { <<Asset("ETH", "0xAa", 60), Asset("AURORA", "0xbb", 40)>>,
      <<Asset("ETH", "0xAa", 29), Asset("AURORA", "0xbb", 71)>>,
      <<Asset("ETH", "0xAa", 200), Asset("AURORA", "0xbb", 156)>>,
      <<Asset("ETH", "0xAa", 50), Asset("WETH", "0xAa", 50)>> }

\* str::to_lowercase on the contract addresses of the model
to_lowercase(s) ==
    CASE s = "0xAa" -> "0xaa"
      [] s = "0xbb" -> "0xbb"
      [] s = "0xE1" -> "0xe1"
      [] s = "0xA2" -> "0xa2"
      [] OTHER -> s

\* The static table from a lowercase contract address to the oracle's asset id
TOKEN_ADDRESSES == [a \in {"0xaa", "0xbb"} |-> IF a = "0xaa" THEN "aa.near" ELSE "bb.near"]

\* Strings that are parsed are sequences of characters
DecimalDigits == <<"0", "1", "2", "3", "4", "5", "6", "7", "8", "9">>

HexDigits == DecimalDigits \o <<"a", "b", "c", "d", "e", "f">>

\* position of a character in a sequence of digits less one, -1 when it is none of them
DigitValue(digits, c) ==
    IF \E i \in 1..Len(digits) : digits[i] = c
    THEN (CHOOSE i \in 1..Len(digits) : digits[i] = c) - 1
    ELSE -1

RECURSIVE parse_digits(_, _)
parse_digits(s, acc) ==
    IF s = << >> THEN Some(acc)
    ELSE IF DigitValue(DecimalDigits, Head(s)) < 0 THEN None
    ELSE parse_digits(Tail(s), acc * 10 + DigitValue(DecimalDigits, Head(s)))

\* str::parse::<u64>() and ::<u128>(): an optional "+", then one decimal digit or more
\* (the strings of the model stay below 2^31)
parse(s) ==
    LET body == IF s # << >> /\ Head(s) = "+" THEN Tail(s) ELSE s
    IN  IF body = << >> THEN None ELSE parse_digits(body, 0)

unwrap_or(opt, default) == IF opt.some THEN opt.value ELSE default

\* a - b in u64: a checked build panics when b > a, an unchecked build wraps; the
\* wrapped difference 2^64 + a - b is held as the negative number a - b
u64_sub(a, b) ==
    IF a >= b THEN [tag |-> "ok", val |-> a - b]
    ELSE IF overflow_checks THEN Panic("attempt to subtract with overflow")
    ELSE [tag |-> "ok", val |-> a - b]

\* a < b for u64 values of which the negative ones stand for 2^64 + a
u64_lt(a, b) == IF (a < 0) = (b < 0) THEN a < b ELSE b < 0

\* a + b in u128, a negative number x standing for 2^128 + x: the sum passes
\* u128::MAX when both are at the top of the range, or one is and the sum of the
\* representatives is not negative
u128_add(a, b) ==
    IF (a < 0 /\ b < 0) \/ ((a < 0) # (b < 0) /\ a + b >= 0)
    THEN IF overflow_checks THEN Panic("attempt to add with overflow")
         ELSE [tag |-> "ok", val |-> a + b]
    ELSE [tag |-> "ok", val |-> a + b]

\* new: the state of the unit after construction, or the panic
new(owner, as) ==
    LET tw == total_weight(as)
    IN  IF ~tw.ok THEN Panic("attempt to add with overflow")
        ELSE IF tw.val # 100 THEN Panic("Total weight of assets must equal 100%")
        ELSE [ tag |-> "ok",
               total_assets |-> 0,
               assets |-> as,
               owner_id |-> owner,
               user_balances |-> << >>,
               usdc_contract |-> USDC_CONTRACT,
               oracle_contract |-> ORACLE_CONTRACT,
               latest_signed_txs |-> << >> ]

\* The promise get_asset_prices creates: the oracle's get_price_data, then
\* get_asset_prices_callback on the unit itself
get_asset_prices ==
    [ kind |-> "function_call", receiver_id |-> ORACLE_CONTRACT,
      method |-> "get_price_data", deposit |-> "0",
      callback |-> [receiver_id |-> TOKEN, method |-> "get_asset_prices_callback"] ]

\* HashMap built by inserting the priced entries of prices in order: the last entry
\* of an asset id stays
asset_prices_of(prices) ==
    LET priced == {i \in 1..Len(prices) : prices[i].price.some}
        last(id) == CHOOSE i \in priced :
                        /\ prices[i].asset_id = id
                        /\ \A j \in priced : prices[j].asset_id = id => j <= i
    IN  [ id \in {prices[i].asset_id : i \in priced} |->
            << unwrap_or(parse(prices[last(id)].price.value.multiplier), 0),
               prices[last(id)].price.value.decimals >> ]

\* The map get_asset_prices_callback builds from a response it accepts
priced_assets(prices) ==
    LET asset_prices == asset_prices_of(prices.prices)
        known == { i \in 1..Len(assets) :
                     LET lc == to_lowercase(assets[i].contract_address)
                     IN  /\ lc \in DOMAIN TOKEN_ADDRESSES
                         /\ TOKEN_ADDRESSES[lc] \in DOMAIN asset_prices }
    IN  [ tag |-> "ok",
          prices |->
            [ a \in {assets[i].contract_address : i \in known} |->
                asset_prices[TOKEN_ADDRESSES[to_lowercase(a)]] ] ]

\* Mutant of get_asset_prices_callback: the age of the response is not looked at
get_asset_prices_callback_any_age(call_result, block_timestamp) ==
    IF ~call_result.ok THEN Panic("Failed to fetch price data from oracle")
    ELSE priced_assets(call_result.data)

\* get_asset_prices_callback: the map from contract address to (multiplier, decimals)
\* of the unit's assets the response prices, or the panic
get_asset_prices_callback(call_result, block_timestamp) ==
    IF ~call_result.ok THEN Panic("Failed to fetch price data from oracle")
    ELSE LET prices    == call_result.data
             timestamp == unwrap_or(parse(prices.timestamp), 0)
             age       == u64_sub(block_timestamp, timestamp)
         IN  IF IsPanic(age) THEN age
             ELSE IF ~u64_lt(age.val, prices.recency_duration_sec * NANOS_PER_SEC)
                 THEN Panic("Price data is too old")
             ELSE priced_assets(prices)

\* (amount.0 as f64 * weight_fraction / price) as u128, with
\* price = multiplier as f64 / 10_u64.pow(decimals) as f64 and
\* weight_fraction = f64::from(weight) / 100.0
asset_amount(amount, weight, multiplier, decimals) ==
    LET price           == f64_div(f64_from(multiplier), f64_from(10^decimals))
        weight_fraction == f64_div(f64_from(weight), f64_from(100))
    IN  f64_as_u128(f64_div(f64_mul(f64_from(amount), weight_fraction), price))

\* Mutant of credit_entry: the entry is set to the new quantity, whatever it held
credit_entry_overwrites(row, a, quantity) ==
    [tag |-> "ok", val |-> quantity]

\* balance.0 + asset_amount for an entry the row has, asset_amount for a new one
credit_entry(row, a, quantity) ==
    IF a \in DOMAIN row THEN u128_add(row[a], quantity)
    ELSE [tag |-> "ok", val |-> quantity]

RECURSIVE credit_assets(_, _, _, _)
RECURSIVE credit_next(_, _, _, _, _, _)

\* the loop over self.assets from asset i on: the depositor's row afterwards, or the
\* panic of an addition
credit_assets(row, i, amount, asset_prices) ==
    IF i > Len(assets) THEN [tag |-> "ok", row |-> row]
    ELSE IF assets[i].contract_address \notin DOMAIN asset_prices
        THEN credit_assets(row, i + 1, amount, asset_prices)
    ELSE credit_next(row, i, amount, asset_prices, assets[i].contract_address,
                     credit_entry(row, assets[i].contract_address,
                                  asset_amount(amount, assets[i].weight,
                                      asset_prices[assets[i].contract_address][1],
                                      asset_prices[assets[i].contract_address][2])))

\* the loop after asset i, whose entry becomes sum
credit_next(row, i, amount, asset_prices, a, sum) ==
    IF IsPanic(sum) THEN sum
    ELSE credit_assets((a :> sum.val) @@ row, i + 1, amount, asset_prices)

\* Mutant of deposit_processed: total_assets is left as it was
deposit_processed_keeps_total(sender_id, credited, total) ==
    IF IsPanic(credited) THEN credited
    ELSE IF IsPanic(total) THEN total
    ELSE [ tag |-> "ok",
           user_balances |-> (sender_id :> credited.row) @@ user_balances,
           total_assets |-> total_assets ]

\* the ledger and total_assets once the row is credited and the total added up
deposit_processed(sender_id, credited, total) ==
    IF IsPanic(credited) THEN credited
    ELSE IF IsPanic(total) THEN total
    ELSE [ tag |-> "ok",
           user_balances |-> (sender_id :> credited.row) @@ user_balances,
           total_assets |-> total.val ]

\* process_deposit_with_prices: the ledger and total_assets afterwards, or the panic
process_deposit_with_prices(sender_id, amount, prices_result) ==
    IF ~prices_result.ok THEN Panic("Failed to fetch asset prices")
    ELSE deposit_processed(
             sender_id,
             credit_assets(IF sender_id \in DOMAIN user_balances
                           THEN user_balances[sender_id] ELSE << >>,
                           1, amount, prices_result.prices),
             u128_add(total_assets, amount))

\* process_deposit: get_asset_prices, then process_deposit_with_prices on the unit
process_deposit(sender_id, amount) ==
    << [ get_asset_prices EXCEPT
           !.callback = [ receiver_id |-> TOKEN,
                          method |-> "get_asset_prices_callback",
                          then |-> [ receiver_id |-> TOKEN,
                                     method |-> "process_deposit_with_prices",
                                     args |-> <<sender_id, amount>> ] ] ] >>

\* Mutant of ft_on_transfer: the message is not looked at
ft_on_transfer_any_msg(predecessor, sender_id, amount, msg) ==
    IF predecessor # USDC_CONTRACT THEN Panic("Only USDC token is accepted")
    ELSE [tag |-> "ok", unused |-> 0, promises |-> process_deposit(sender_id, amount)]

\* Mutant of ft_on_transfer: a notification of any account is taken
ft_on_transfer_any_predecessor(predecessor, sender_id, amount, msg) ==
    IF msg = ""
    THEN [tag |-> "ok", unused |-> 0, promises |-> process_deposit(sender_id, amount)]
    ELSE [tag |-> "ok", unused |-> amount, promises |-> << >>]

\* ft_on_transfer: the amount reported unused and the promises created, or the panic
ft_on_transfer(predecessor, sender_id, amount, msg) ==
    IF predecessor # USDC_CONTRACT THEN Panic("Only USDC token is accepted")
    ELSE IF msg = ""
         THEN [tag |-> "ok", unused |-> 0, promises |-> process_deposit(sender_id, amount)]
         ELSE [tag |-> "ok", unused |-> amount, promises |-> << >>]

\* Mutant of withdraw_in_usdc: the caller is not looked up in the ledger
withdraw_in_usdc_any_caller(sender_id, amount) ==
    [ tag |-> "ok",
      promises |-> << [ kind |-> "function_call", receiver_id |-> USDC_CONTRACT,
                        method |-> "ft_transfer",
                        args |-> [receiver_id |-> sender_id, amount |-> amount],
                        deposit |-> "1 yoctoNEAR" ] >> ]

\* Mutant of withdraw_in_usdc: an amount above every entry of the row is refused
withdraw_in_usdc_needs_balance(sender_id, amount) ==
    IF sender_id \notin DOMAIN user_balances THEN Panic("No balance found for user")
    ELSE IF \A a \in DOMAIN user_balances[sender_id] : user_balances[sender_id][a] < amount
        THEN Panic("Insufficient balance")
    ELSE [ tag |-> "ok",
           promises |-> << [ kind |-> "function_call", receiver_id |-> USDC_CONTRACT,
                             method |-> "ft_transfer",
                             args |-> [receiver_id |-> sender_id, amount |-> amount],
                             deposit |-> "1 yoctoNEAR" ] >> ]

\* withdraw_in_usdc: the ft_transfer on the USDC contract, or the panic
withdraw_in_usdc(sender_id, amount) ==
    IF sender_id \notin DOMAIN user_balances THEN Panic("No balance found for user")
    ELSE [ tag |-> "ok",
           promises |-> << [ kind |-> "function_call", receiver_id |-> USDC_CONTRACT,
                             method |-> "ft_transfer",
                             args |-> [receiver_id |-> sender_id, amount |-> amount],
                             deposit |-> "1 yoctoNEAR" ] >> ]

\* omni_transaction's parse_eth_address on the well-formed addresses of the model:
\* the 20 bytes, which do not depend on the case of the hex digits
parse_eth_address(address) == [bytes |-> to_lowercase(address)]

\* selector of transfer(address,uint256), 12 zero bytes, the recipient, 16 zero
\* bytes, the amount in 16 big-endian bytes
construct_erc20_transfer_data(to, amount) ==
    << "a9059cbb", [zeros |-> 12], to, [zeros |-> 16], [be_bytes |-> amount] >>

construct_erc20_transfer_tx(token_address, recipient_address, amount, network_details) ==
    [ nonce |-> network_details.eth_nonce,
      to |-> parse_eth_address(token_address),
      value |-> 0,
      input |-> construct_erc20_transfer_data(parse_eth_address(recipient_address),
                                              amount),
      max_priority_fee_per_gas |-> network_details.max_priority_fee_per_gas,
      max_fee_per_gas |-> network_details.max_fee_per_gas,
      gas_limit |-> network_details.gas_limit,
      chain_id |-> network_details.chain_id ]

\* create_and_sign_withdrawal: the sign call on the MPC contract with the hash of the
\* encoded transaction, then sign_callback on the unit with the transaction
create_and_sign_withdrawal(token_address, recipient, amount, network_details, path) ==
    LET omni_tx == construct_erc20_transfer_tx(token_address, recipient, amount,
                                               network_details)
    IN  [ kind |-> "function_call", receiver_id |-> MPC_CONTRACT_ACCOUNT_ID,
          method |-> "sign",
          args |-> [ payload |-> [keccak256 |-> [build_for_signing |-> omni_tx]],
                     path |-> path, key_version |-> 0 ],
          deposit |-> SIGN_DEPOSIT,
          callback |-> [ receiver_id |-> TOKEN, method |-> "sign_callback",
                         evm_tx_wrapper |-> omni_tx ] ]

\* Mutant of withdrawal_of: every asset goes to the ETH destination and treasury
withdrawal_of_always_eth(i, row, request) ==
    IF assets[i].contract_address \in DOMAIN row /\ row[assets[i].contract_address] # 0
    THEN << create_and_sign_withdrawal(assets[i].contract_address,
                                       request.eth_destination,
                                       row[assets[i].contract_address],
                                       request.network_details, ETH_TREASURY_PATH) >>
    ELSE << >>

\* The signing request of asset i of the list for the row, if the row holds a
\* positive quantity of it
withdrawal_of(i, row, request) ==
    LET asset == assets[i]
    IN  IF asset.contract_address \in DOMAIN row /\ row[asset.contract_address] # 0
        THEN << create_and_sign_withdrawal(
                    asset.contract_address,
                    IF asset.name = "ETH" THEN request.eth_destination
                    ELSE request.aurora_destination,
                    row[asset.contract_address],
                    request.network_details,
                    IF asset.name = "ETH" THEN ETH_TREASURY_PATH
                    ELSE AURORA_TREASURY_PATH) >>
        ELSE << >>

RECURSIVE withdrawals_from(_, _, _)
withdrawals_from(i, row, request) ==
    IF i > Len(assets) THEN << >>
    ELSE withdrawal_of(i, row, request) \o withdrawals_from(i + 1, row, request)

\* Mutant of withdraw_underlying_assets: the row is left as it was
withdraw_underlying_assets_keeps_row(sender_id, request) ==
    IF sender_id \notin DOMAIN user_balances THEN Panic("No balance found for user")
    ELSE [ tag |-> "ok",
           promises |-> withdrawals_from(1, user_balances[sender_id], request),
           user_balances |-> user_balances,
           returned |-> [kind |-> "batch", receiver_id |-> TOKEN, actions |-> << >>] ]

\* Mutant of withdraw_underlying_assets: the caller's row is taken out of the ledger
withdraw_underlying_assets_removes_row(sender_id, request) ==
    IF sender_id \notin DOMAIN user_balances THEN Panic("No balance found for user")
    ELSE [ tag |-> "ok",
           promises |-> withdrawals_from(1, user_balances[sender_id], request),
           user_balances |-> [ u \in DOMAIN user_balances \ {sender_id} |->
                                 user_balances[u] ],
           returned |-> [kind |-> "batch", receiver_id |-> TOKEN, actions |-> << >>] ]

\* withdraw_underlying_assets: the signing requests, the ledger afterwards and the
\* promise returned, or the panic
withdraw_underlying_assets(sender_id, request) ==
    IF sender_id \notin DOMAIN user_balances THEN Panic("No balance found for user")
    ELSE LET row     == user_balances[sender_id]
             listed  == {assets[i].contract_address : i \in 1..Len(assets)}
             cleared == [a \in DOMAIN row |-> IF a \in listed THEN 0 ELSE row[a]]
         IN  [ tag |-> "ok",
               promises |-> withdrawals_from(1, row, request),
               user_balances |-> [user_balances EXCEPT ![sender_id] = cleared],
               returned |-> [kind |-> "batch", receiver_id |-> TOKEN, actions |-> << >>] ]

\* hex::decode: the bytes of an even number of hex digits
hex_decode(s) ==
    IF Len(s) % 2 = 0 /\ \A i \in 1..Len(s) : DigitValue(HexDigits, s[i]) >= 0
    THEN Some([ i \in 1..(Len(s) \div 2) |->
                  16 * DigitValue(HexDigits, s[2 * i - 1]) + DigitValue(HexDigits, s[2 * i]) ])
    ELSE None

\* Mutant of sign_callback: the signed transaction replaces what was recorded
sign_callback_overwrites(evm_tx_wrapper, result) ==
    IF ~result.ok THEN Panic("called Result::unwrap() on an Err value")
    ELSE IF Len(result.value.big_r.affine_point) < 2
    THEN Panic("byte index 2 is out of bounds")
    ELSE IF \/ ~hex_decode(SubSeq(result.value.big_r.affine_point, 3,
                                  Len(result.value.big_r.affine_point))).some
            \/ ~hex_decode(result.value.s.scalar).some
    THEN Panic("called Result::unwrap() on an Err value")
    ELSE LET signed_tx ==
                 [ tx |-> evm_tx_wrapper,
                   signature |->
                       [ v |-> result.value.recovery_id,
                         r |-> hex_decode(SubSeq(result.value.big_r.affine_point, 3,
                                   Len(result.value.big_r.affine_point))).value,
                         s |-> hex_decode(result.value.s.scalar).value ] ]
         IN  [ tag |-> "ok", latest_signed_txs |-> << signed_tx >>, ret |-> signed_tx ]

\* sign_callback: the signed transaction, pushed to latest_signed_txs and returned, or
\* the panic
sign_callback(evm_tx_wrapper, result) ==
    IF ~result.ok THEN Panic("called Result::unwrap() on an Err value")
    ELSE LET mpc_signature == result.value
             big_r == mpc_signature.big_r.affine_point
             s     == mpc_signature.s.scalar
         IN  IF Len(big_r) < 2 THEN Panic("byte index 2 is out of bounds")
             ELSE LET r  == hex_decode(SubSeq(big_r, 3, Len(big_r)))
                      sd == hex_decode(s)
                  IN  IF ~r.some \/ ~sd.some
                      THEN Panic("called Result::unwrap() on an Err value")
                      ELSE LET signed_tx ==
                                   [ tx |-> evm_tx_wrapper,
                                     signature |-> [ v |-> mpc_signature.recovery_id,
                                                     r |-> r.value, s |-> sd.value ] ]
                           IN  [ tag |-> "ok",
                                 latest_signed_txs |-> Append(latest_signed_txs, signed_tx),
                                 ret |-> signed_tx ]

----------------------------------------------------------------------------
(* The unit's calls, callbacks and inputs *)

\* the account the factory passes to new as the owner
OWNER == "alice.near"

Amounts == {100}

Msgs == {"", "swap"}

RECURSIVE DecimalString(_)
\* u64::to_string
DecimalString(n) ==
    IF n < 10 THEN << DecimalDigits[n + 1] >>
    ELSE DecimalString(n \div 10) \o << DecimalDigits[(n % 10) + 1] >>

\* env::block_timestamp() when get_asset_prices_callback runs, in nanoseconds
TokenBlockTimes == {1500000000}

\* OraclePriceData.timestamp: one that does not parse, one a full second old, one
\* half a second old, one half a second ahead
Timestamps ==
    { << "x" >> } \cup { DecimalString(n) : n \in {500000000, 1000000000, 2000000000} }

\* OraclePriceData.recency_duration_sec
Recencies == {0, 1}

Price(multiplier, decimals) == Some([multiplier |-> multiplier, decimals |-> decimals])

PriceList(p1, p2) ==
    << [asset_id |-> "aa.near", price |-> p1], [asset_id |-> "bb.near", price |-> p2] >>

\* OraclePriceData.prices: 2.0 and 1.0; 1.0 and 1.0; no price and 1.0; a multiplier
\* that does not parse and no price
PriceLists ==
    { PriceList(Price(<< "2" >>, 0), Price(<< "1", "0" >>, 1)),
      PriceList(Price(<< "1", "0" >>, 1), Price(<< "1" >>, 0)),
      PriceList(None, Price(<< "1" >>, 0)),
      PriceList(Price(<< "x" >>, 0), None) }

\* Result<OraclePriceData, PromiseError> of the oracle's get_price_data
OracleResults ==
    { [ok |-> FALSE, data |-> "none"] } \cup
    { [ok |-> TRUE,
       data |-> [timestamp |-> t, recency_duration_sec |-> r, prices |-> p]] :
        t \in Timestamps, r \in Recencies, p \in PriceLists }

WithdrawRequests ==
    { [ eth_destination |-> "0xE1", aurora_destination |-> "0xA2",
        network_details |-> [ chain_id |-> 1, eth_nonce |-> 0,
                              max_priority_fee_per_gas |-> 1, max_fee_per_gas |-> 2,
                              gas_limit |-> 21000 ] ] }

\* Result<SignResult, PromiseError> of the MPC contract's sign: a failure, a
\* signature, a signature whose affine point is not hex
SignResults ==
    { [ok |-> FALSE, value |-> "none"],
      [ok |-> TRUE, value |-> [ big_r |-> [affine_point |-> << "0", "2", "a", "b" >>],
                                s |-> [scalar |-> << "c", "d" >>], recovery_id |-> 0 ]],
      [ok |-> TRUE, value |-> [ big_r |-> [affine_point |-> << "0", "2", "z", "z" >>],
                                s |-> [scalar |-> << "c", "d" >>], recovery_id |-> 0 ]] }

\* The methods of the unit marked #[private] that the host exports
PrivateMethods ==
    { "get_asset_prices_callback", "process_deposit", "process_deposit_with_prices",
      "sign_callback" }

\* Result<_, PromiseError> a callback gets from a promise that has not resolved or
\* has failed
PromiseFailed == [ok |-> FALSE, prices |-> << >>]

\* last_call of a call on the unit: who called, with which arguments
Called(call, caller, args) == [caller |-> caller, args |-> args] @@ call

TokenInit ==
    /\ overflow_checks \in BOOLEAN
    /\ usize_bits = WASM32_USIZE_BITS
    /\ fund_creation_deposit = 2 * minimum_needed
    /\ funds = << >>
    /\ accounts = {}
    /\ sagas = << >>
    /\ \E as \in AssetConfigs :
          LET c == new(OWNER, as)
          IN  /\ ~IsPanic(c)
              /\ assets = c.assets
              /\ total_assets = c.total_assets
              /\ owner_id = c.owner_id
              /\ user_balances = c.user_balances
              /\ latest_signed_txs = c.latest_signed_txs
    /\ deposits = << >>
    /\ signs = << >>
    /\ last_call = Returned("new", 0, "none", << >>)

\* The host delivers a transfer notification to ft_on_transfer, while the model
\* follows fewer than max deposits
FtOnTransferUpTo(max, predecessor, sender_id, amount, msg) ==
    LET r    == ft_on_transfer(predecessor, sender_id, amount, msg)
        args == [sender_id |-> sender_id, amount |-> amount, msg |-> msg]
    IN  IF IsPanic(r)
        THEN /\ last_call' = Called(Panicked("ft_on_transfer", r.msg), predecessor, args)
             /\ UNCHANGED <<build, fvars, tvars>>
        ELSE IF r.promises = << >>
        THEN /\ last_call' = Called(Returned("ft_on_transfer", 0, ToString(r.unused),
                                             r.promises), predecessor, args)
             /\ UNCHANGED <<build, fvars, tvars>>
        ELSE /\ Len(deposits) < max
             /\ deposits' = Append(deposits,
                    [ sender_id |-> sender_id, amount |-> amount, stage |-> "oracle",
                      prices_result |-> PromiseFailed, outcome |-> "none",
                      unused |-> r.unused ])
             /\ last_call' = Called(Returned("ft_on_transfer", Len(deposits) + 1,
                                             ToString(r.unused), r.promises),
                                    predecessor, args)
             /\ UNCHANGED <<build, fvars, cvars, signs>>

\* The host delivers a transfer notification to ft_on_transfer
FtOnTransfer(predecessor, sender_id, amount, msg) ==
    FtOnTransferUpTo(MaxDeposits, predecessor, sender_id, amount, msg)

\* Anyone calls get_asset_prices: the result of its callback goes to the caller
GetAssetPrices(caller) ==
    /\ last_call' = Called(Returned("get_asset_prices", 0, "promise",
                                    << get_asset_prices >>), caller, "none")
    /\ UNCHANGED <<build, fvars, tvars>>

\* The oracle's answer to deposit i reaches get_asset_prices_callback, whose result
\* is what process_deposit_with_prices will get
GetAssetPricesCallback(i, call_result, now) ==
    /\ deposits[i].stage = "oracle"
    /\ LET r    == get_asset_prices_callback(call_result, now)
           args == [ ok |-> call_result.ok,
                     timestamp |-> IF call_result.ok THEN call_result.data.timestamp
                                   ELSE << >>,
                     recency_duration_sec |->
                         IF call_result.ok THEN call_result.data.recency_duration_sec
                         ELSE 0,
                     block_timestamp |-> now ]
       IN  IF IsPanic(r)
           THEN /\ deposits' = [deposits EXCEPT ![i].stage = "priced",
                                                ![i].prices_result = PromiseFailed]
                /\ last_call' = Called([Panicked("get_asset_prices_callback", r.msg)
                                            EXCEPT !.saga = i], TOKEN, args)
           ELSE /\ deposits' = [deposits EXCEPT
                       ![i].stage = "priced",
                       ![i].prices_result = [ok |-> TRUE, prices |-> r.prices]]
                /\ last_call' = Called(Returned("get_asset_prices_callback", i,
                                                r.prices, << >>), TOKEN, args)
    /\ UNCHANGED <<build, fvars, cvars, signs>>

\* Deposit i is done: r is what process_deposit_with_prices did with args
DepositDone(i, r, args) ==
    IF IsPanic(r)
    THEN /\ deposits' = [deposits EXCEPT ![i].stage = "done", ![i].outcome = "panic"]
         /\ last_call' = Called([Panicked("process_deposit_with_prices", r.msg)
                                     EXCEPT !.saga = i], TOKEN, args)
         /\ UNCHANGED cvars
    ELSE /\ deposits' = [deposits EXCEPT ![i].stage = "done", ![i].outcome = "ok"]
         /\ user_balances' = r.user_balances
         /\ total_assets' = r.total_assets
         /\ last_call' = Called(Returned("process_deposit_with_prices", i, "none", << >>),
                                TOKEN, args)
         /\ UNCHANGED <<assets, owner_id, latest_signed_txs>>

\* The result of get_asset_prices_callback reaches process_deposit_with_prices
ProcessDepositWithPrices(i) ==
    /\ deposits[i].stage = "priced"
    /\ DepositDone(i,
                   process_deposit_with_prices(deposits[i].sender_id, deposits[i].amount,
                                               deposits[i].prices_result),
                   [ sender_id |-> deposits[i].sender_id, amount |-> deposits[i].amount,
                     prices_result |-> deposits[i].prices_result ])
    /\ UNCHANGED <<build, fvars, signs>>

\* A user calls withdraw_in_usdc
WithdrawInUsdc(caller, amount) ==
    LET r == withdraw_in_usdc(caller, amount)
    IN  /\ last_call' = IF IsPanic(r)
                        THEN Called(Panicked("withdraw_in_usdc", r.msg), caller, amount)
                        ELSE Called(Returned("withdraw_in_usdc", 0, "promise",
                                             r.promises), caller, amount)
        /\ UNCHANGED <<build, fvars, tvars>>

\* A user calls withdraw_underlying_assets
WithdrawUnderlyingAssets(caller, request) ==
    LET r == withdraw_underlying_assets(caller, request)
    IN  IF IsPanic(r)
        THEN /\ last_call' = Called(Panicked("withdraw_underlying_assets", r.msg),
                                    caller, request)
             /\ UNCHANGED <<build, fvars, tvars>>
        ELSE /\ Len(signs) + Len(r.promises) <= MaxSigns
             /\ signs' = signs \o
                    [ k \in 1..Len(r.promises) |->
                        [ caller |-> caller, promise |-> r.promises[k],
                          stage |-> "pending", outcome |-> "none" ] ]
             /\ user_balances' = r.user_balances
             /\ last_call' = Called(Returned("withdraw_underlying_assets", 0,
                                             r.returned, r.promises), caller, request)
             /\ UNCHANGED <<build, fvars, assets, total_assets, owner_id,
                            latest_signed_txs, deposits>>

\* The MPC contract's answer to signing request j reaches sign_callback
SignCallback(j, result) ==
    /\ signs[j].stage = "pending"
    /\ LET r == sign_callback(signs[j].promise.callback.evm_tx_wrapper, result)
       IN  IF IsPanic(r)
           THEN /\ signs' = [signs EXCEPT ![j].stage = "done", ![j].outcome = "panic"]
                /\ last_call' = Called([Panicked("sign_callback", r.msg)
                                            EXCEPT !.saga = j], TOKEN, result)
                /\ UNCHANGED latest_signed_txs
           ELSE /\ signs' = [signs EXCEPT ![j].stage = "done", ![j].outcome = "ok"]
                /\ latest_signed_txs' = r.latest_signed_txs
                /\ last_call' = Called(Returned("sign_callback", j, r.ret, << >>),
                                       TOKEN, result)
    /\ UNCHANGED <<build, fvars, assets, total_assets, owner_id, user_balances,
                   deposits>>

\* #[private]: a method called by any account but the unit itself panics
TokenPrivateCallRejected(caller, method) ==
    /\ caller # TOKEN
    /\ last_call' = Called(Panicked(method, "Method is private"), caller, "none")
    /\ UNCHANGED <<build, fvars, tvars>>

TokenNext ==
    \/ \E p \in Users \cup {USDC_CONTRACT}, s \in Users, a \in Amounts, m \in Msgs :
           FtOnTransfer(p, s, a, m)
    \/ \E c \in Users : GetAssetPrices(c)
    \/ \E i \in 1..Len(deposits), cr \in OracleResults, now \in TokenBlockTimes :
           GetAssetPricesCallback(i, cr, now)
    \/ \E i \in 1..Len(deposits) : ProcessDepositWithPrices(i)
    \/ \E c \in Users, a \in Amounts : WithdrawInUsdc(c, a)
    \/ \E c \in Users, rq \in WithdrawRequests : WithdrawUnderlyingAssets(c, rq)
    \/ \E j \in 1..Len(signs), res \in SignResults : SignCallback(j, res)
    \/ \E c \in Users, m \in PrivateMethods : TokenPrivateCallRejected(c, m)

SpecToken == TokenInit /\ [][TokenNext]_vars

\* The host executes every receipt of a deposit's promise chain: the oracle's answer
\* is delivered to get_asset_prices_callback, and its result to
\* process_deposit_with_prices
HostRunsDepositChain ==
    /\ WF_deposits(\E i \in 1..Len(deposits), cr \in OracleResults,
                       now \in TokenBlockTimes : GetAssetPricesCallback(i, cr, now))
    /\ WF_deposits(\E i \in 1..Len(deposits) : ProcessDepositWithPrices(i))

SpecTokenLive == SpecToken /\ HostRunsDepositChain

----------------------------------------------------------------------------
(* The unit with deposits and withdrawals in flight at the same time *)

\* the deposits followed when several are in flight
MaxRacingDeposits == 2

\* The oracle's answers: a failure, and a fresh response with both prices
RacingOracleResults ==
    { r \in OracleResults :
        \/ ~r.ok
        \/ /\ r.ok
           /\ r.data.timestamp = DecimalString(1000000000)
           /\ r.data.recency_duration_sec = 1
           /\ r.data.prices = PriceList(Price(<< "2" >>, 0), Price(<< "1", "0" >>, 1)) }

\* A unit of the assets ETH 60 and AURORA 40
RacingInit ==
    /\ TokenInit
    /\ assets = << Asset("ETH", "0xAa", 60), Asset("AURORA", "0xbb", 40) >>

RacingNext ==
    \/ \E s \in Users, a \in Amounts :
           FtOnTransferUpTo(MaxRacingDeposits, USDC_CONTRACT, s, a, "")
    \/ \E i \in 1..Len(deposits), cr \in RacingOracleResults, now \in TokenBlockTimes :
           GetAssetPricesCallback(i, cr, now)
    \/ \E i \in 1..Len(deposits) : ProcessDepositWithPrices(i)
    \/ \E c \in Users, rq \in WithdrawRequests : WithdrawUnderlyingAssets(c, rq)
    \/ \E j \in 1..Len(signs), res \in SignResults : SignCallback(j, res)

SpecRacing == RacingInit /\ [][RacingNext]_vars

----------------------------------------------------------------------------
(* The unit's ledger under several deposits of different amounts and both       *)
(* withdrawals                                                                   *)

\* the deposits followed
MaxLedgerDeposits == 2

\* amount of a transfer notification
LedgerAmounts == {100, 250}

\* amount of withdraw_in_usdc: one a deposit covers, one above all the deposits followed
WithdrawAmounts == {100, 1000}

LedgerNext ==
    \/ \E s \in Users, a \in LedgerAmounts :
           FtOnTransferUpTo(MaxLedgerDeposits, USDC_CONTRACT, s, a, "")
    \/ \E i \in 1..Len(deposits), cr \in RacingOracleResults, now \in TokenBlockTimes :
           GetAssetPricesCallback(i, cr, now)
    \/ \E i \in 1..Len(deposits) : ProcessDepositWithPrices(i)
    \/ \E c \in Users, a \in WithdrawAmounts : WithdrawInUsdc(c, a)
    \/ \E c \in Users, rq \in WithdrawRequests : WithdrawUnderlyingAssets(c, rq)
    \/ \E j \in 1..Len(signs), res \in SignResults : SignCallback(j, res)

SpecLedger == RacingInit /\ [][LedgerNext]_vars

----------------------------------------------------------------------------
(* The factory and the unit it deploys at TOKEN, end to end *)

\* The host runs the batch of saga i on the sub-account: when all of its actions go
\* through, the account exists and new has constructed the unit from the arguments
\* create_fund serialised, the caller and the assets of the metadata; when any of
\* them fails (new panics, or the account exists), none takes effect
DeployUnit(i, ok) ==
    /\ sagas[i].stage = "deploying"
    /\ ok => /\ sagas[i].token_address \notin accounts
             /\ ~IsPanic(new(sagas[i].caller, sagas[i].metadata.assets))
    /\ sagas' = [sagas EXCEPT ![i].stage = "resolved",
                              ![i].result = IF ok THEN "Ok" ELSE "Failed"]
    /\ accounts' = IF ok THEN accounts \cup {sagas[i].token_address} ELSE accounts
    /\ IF ok /\ sagas[i].token_address = TOKEN
       THEN /\ assets' = new(sagas[i].caller, sagas[i].metadata.assets).assets
            /\ total_assets' = new(sagas[i].caller, sagas[i].metadata.assets).total_assets
            /\ owner_id' = new(sagas[i].caller, sagas[i].metadata.assets).owner_id
            /\ user_balances' = new(sagas[i].caller, sagas[i].metadata.assets).user_balances
            /\ latest_signed_txs'
                   = new(sagas[i].caller, sagas[i].metadata.assets).latest_signed_txs
       ELSE UNCHANGED cvars
    /\ last_call' = Returned("deploy_batch", i, IF ok THEN "Ok" ELSE "Failed", << >>)
    /\ UNCHANGED <<build, fund_creation_deposit, funds, deposits, signs>>

\* The factory's saga for the prefix of TOKEN; the unit takes calls once its account
\* exists
EndToEndNext ==
    \/ \E c \in Users, m \in Metadatas :
           CreateFund(c, minimum_needed, "fa", m, NoKey)
    \/ \E i \in 1..Len(sagas), ok \in BOOLEAN : DeployUnit(i, ok)
    \/ \E i \in 1..Len(sagas), now \in BlockTimes : OnFundCreatedCallback(i, now)
    \/ \E s \in Users, a \in Amounts, m \in Msgs :
           TOKEN \in accounts /\ FtOnTransfer(USDC_CONTRACT, s, a, m)
    \/ \E i \in 1..Len(deposits), cr \in OracleResults, now \in TokenBlockTimes :
           TOKEN \in accounts /\ GetAssetPricesCallback(i, cr, now)
    \/ \E i \in 1..Len(deposits) : TOKEN \in accounts /\ ProcessDepositWithPrices(i)
    \/ \E c \in Users, rq \in WithdrawRequests :
           TOKEN \in accounts /\ WithdrawUnderlyingAssets(c, rq)
    \/ \E j \in 1..Len(signs), res \in SignResults :
           TOKEN \in accounts /\ SignCallback(j, res)

SpecEndToEnd == FactoryInit /\ [][EndToEndNext]_vars

----------------------------------------------------------------------------
(* IndexFundFactory.get_funds, on the registries of up to MaxFunds funds; u64   *)
(* arguments are numbers in limbs                                                *)

\* the registries hold at most MaxFunds funds; the small indexes are 0..MaxIndex
MaxFunds == 3

MaxIndex == 3

\* 2^n
BNPow2(n) == BNShl(BNFromNat(1), n)

\* a mod 2^w
BNLow(a, w) == BNSub(a, BNShl(BNShr(a, w), w))

\* u64 + u64: a sum past u64::MAX panics in a build with overflow checks and wraps in
\* one without
u64_add(a, b) ==
    IF BNBitLen(BNAdd(a, b)) <= U64_BITS THEN [ok |-> TRUE, val |-> BNAdd(a, b)]
    ELSE IF overflow_checks THEN [ok |-> FALSE, val |-> << >>]
    ELSE [ok |-> TRUE, val |-> BNLow(BNAdd(a, b), U64_BITS)]

\* usize::try_from(u64)
usize_try_from(a) == IF BNBitLen(a) <= usize_bits THEN Some(a) ELSE None

\* u64 as usize: the low bits
as_usize(a) == BNLow(a, usize_bits)

\* std::cmp::min(a, len) for a usize a and the length of a Vec
min_len(a, len) == IF BNCmp(a, BNFromNat(len)) < 0 THEN BNToNat(a) ELSE len

\* keys[start..end] mapped to (key, fund): a slice that starts past its end panics
get_funds_slice(start, end) ==
    IF BNCmp(start, BNFromNat(end)) > 0
    THEN Panic("slice index starts past its end")
    ELSE [ tag |-> "ok",
           ret |-> [ i \in 1..(end - BNToNat(start)) |->
                       << funds[BNToNat(start) + i].key,
                          get_fund(funds[BNToNat(start) + i].key).value >> ] ]

\* get_funds: the (prefix, fund) pairs returned, or the panic
get_funds(from_index, limit) ==
    IF ~usize_try_from(from_index).some THEN Panic("Invalid from_index")
    ELSE IF ~u64_add(from_index, limit).ok THEN Panic("attempt to add with overflow")
    ELSE get_funds_slice(usize_try_from(from_index).value,
                         min_len(as_usize(u64_add(from_index, limit).val), Len(funds)))

\* u64 arguments: the small indexes, 2^32 and u64::MAX
U64s ==
    { BNFromNat(n) : n \in 0..MaxIndex } \cup
    { BNPow2(WASM32_USIZE_BITS), BNSub(BNPow2(U64_BITS), BNFromNat(1)) }

\* the record on_fund_created_callback inserts for a prefix
FundOf(prefix) ==
    [ metadata |-> Metadata("F6040", << Asset("ETH", "0xAa", 60),
                                        Asset("AURORA", "0xbb", 40) >>),
      token_address |-> subaccount_id(prefix),
      total_supply |-> 0,
      creation_timestamp |-> 1 ]

RECURSIVE Registries(_)
\* the registries that n successful sagas with different prefixes leave
Registries(n) ==
    IF n = 0 THEN { << >> }
    ELSE { insert(m, k, FundOf(k)) :
             m \in { r \in Registries(n - 1) : Len(r) = n - 1 },
             k \in FundPrefixes } \cup Registries(n - 1)

FundsInit ==
    /\ overflow_checks \in BOOLEAN
    /\ usize_bits \in {WASM32_USIZE_BITS, HOST_USIZE_BITS}
    /\ fund_creation_deposit = 2 * minimum_needed
    /\ funds \in Registries(MaxFunds)
    /\ accounts = { funds[i].value.token_address : i \in 1..Len(funds) }
    /\ sagas = << >>
    /\ assets = << >>
    /\ total_assets = 0
    /\ owner_id = "none"
    /\ user_balances = << >>
    /\ latest_signed_txs = << >>
    /\ deposits = << >>
    /\ signs = << >>
    /\ last_call = Returned("new", 0, "none", << >>)

\* An account calls the view get_funds
GetFunds(caller, from_index, limit) ==
    LET r    == get_funds(from_index, limit)
        args == [from_index |-> from_index, limit |-> limit]
    IN  /\ last_call' = IF IsPanic(r)
                        THEN Called(Panicked("get_funds", r.msg), caller, args)
                        ELSE Called(Returned("get_funds", 0, r.ret, << >>), caller, args)
        /\ UNCHANGED <<build, fvars, tvars>>

FundsNext == \E f \in U64s, l \in U64s : GetFunds(OWNER, f, l)

SpecFunds == FundsInit /\ [][FundsNext]_vars

----------------------------------------------------------------------------
(* Claims about the factory *)

\* The last call was the completion callback of a saga whose batch had this result
CallbackRan(result) ==
    /\ last_call.op = "on_fund_created_callback"
    /\ last_call.outcome = "ok"
    /\ sagas[last_call.saga].result = result

\* C1: when the deployment batch of a saga has failed, the completion callback leaves
\* the registry without an entry for the prefix, issues one refund transfer whose
\* amount is the deposit attached to create_fund and whose receiver is the account
\* that called create_fund, and returns false.
C1_FailureRefundsCaller ==
    CallbackRan("Failed") =>
        LET s == sagas[last_call.saga]
        IN  /\ last_call.value = "false"
            /\ ~contains_key(funds, s.prefix)
            /\ last_call.promises = << [ kind |-> "transfer", receiver_id |-> s.caller,
                                         amount |-> s.deposit ] >>

\* C2: create_fund goes on to deployment only for asset weights that sum to 100; for
\* any other weight list the call fails, creates no promise and leaves the registry
\* (and the sagas) as they were.
C2_WeightsMustSumTo100 ==
    [][ (last_call'.op = "create_fund"
           /\ SumWeights(last_call'.metadata.assets) # 100) =>
            /\ last_call'.outcome = "panic"
            /\ last_call'.promises = << >>
            /\ funds' = funds
            /\ sagas' = sagas ]_vars

\* C3: the completion callback of a saga runs at most once, and exactly once in a
\* finished saga; a saga makes at most one registry insertion and at most one refund
\* transfer, and never both.
C3_CallbackOncePerSaga ==
    \A i \in 1..Len(sagas) :
        LET s == sagas[i]
        IN  /\ s.callback_runs = (IF s.stage = "done" THEN 1 ELSE 0)
            /\ s.inserts + s.refunds <= s.callback_runs

C3_Witness ==
    \E i \in 1..Len(sagas) : sagas[i].stage = "done" /\ sagas[i].refunds = 1

\* C4: when the deployment batch of a saga has succeeded, the completion callback
\* returns true and get_fund(prefix) then returns a record with the request's
\* metadata, the unit identity prefix.factory and a total supply of 0.
C4_SuccessRegistersFund ==
    CallbackRan("Ok") =>
        LET s == sagas[last_call.saga]
            f == get_fund(s.prefix)
        IN  /\ last_call.value = "true"
            /\ f.some
            /\ f.value.metadata = s.metadata
            /\ f.value.token_address = s.prefix \o "." \o FACTORY
            /\ f.value.total_supply = 0

C4_Witness == CallbackRan("Ok") /\ Len(funds) = 1

\* C5: create_fund with a deposit below the configured creation fee or below the
\* storage cost of the unit's code plus the buffer fails at once: no promise is
\* created and no factory state changes.
C5_DepositTooSmallFails ==
    [][ (last_call'.op = "create_fund"
           /\ (last_call'.deposit < fund_creation_deposit
                 \/ last_call'.deposit < NEAR_PER_STORAGE * TokenWasmLen + STORAGE_BUFFER)) =>
            /\ last_call'.outcome = "panic"
            /\ last_call'.promises = << >>
            /\ UNCHANGED fvars ]_vars

C5_Witness ==
    /\ last_call.op = "create_fund"
    /\ last_call.outcome = "panic"
    /\ last_call.deposit >= fund_creation_deposit
    /\ last_call.deposit < minimum_needed
    /\ SumWeights(last_call.metadata.assets) = 100

----------------------------------------------------------------------------
(* Claims about the unit *)

\* The step is the unit's own call of one of its callbacks
UnitRan(op) == last_call'.op = op /\ last_call'.caller = TOKEN

\* Every asset of the fund has a price in the result
AllPriced(prices_result) ==
    /\ prices_result.ok
    /\ \A i \in 1..Len(assets) : assets[i].contract_address \in DOMAIN prices_result.prices

\* C6: a deposit is credited all or nothing: when pricing failed, or the map of prices
\* misses an asset of the fund, process_deposit_with_prices changes neither the ledger
\* nor total_assets
C6_DepositAllOrNothing ==
    [][ (UnitRan("process_deposit_with_prices")
         /\ ~AllPriced(last_call'.args.prices_result))
        => /\ user_balances' = user_balances
           /\ total_assets' = total_assets ]_vars

\* The response is older than its recency window at the block time, comes from after
\* the block time, or has a timestamp that is no number
TooOld(response) ==
    LET t == parse(response.timestamp)
    IN  \/ ~t.some
        \/ t.value > response.block_timestamp
        \/ response.block_timestamp - t.value
               >= response.recency_duration_sec * NANOS_PER_SEC

\* C7: a response that is too old aborts the deposit: get_asset_prices_callback
\* panics on it and hands a failure on, on which process_deposit_with_prices panics,
\* and neither step changes the ledger or total_assets
C7_StalePricesAbort ==
    [][ /\ (UnitRan("get_asset_prices_callback") /\ last_call'.args.ok
            /\ TooOld(last_call'.args))
           => /\ last_call'.outcome = "panic"
              /\ deposits'[last_call'.saga].prices_result = PromiseFailed
              /\ UNCHANGED cvars
        /\ (UnitRan("process_deposit_with_prices") /\ ~last_call'.args.prices_result.ok)
           => /\ last_call'.outcome = "panic"
              /\ UNCHANGED cvars ]_vars

\* get_asset_prices_callback has refused a response with a timestamp a full recency
\* window old
C7_Witness ==
    /\ last_call.op = "get_asset_prices_callback"
    /\ last_call.value = "Price data is too old"
    /\ parse(last_call.args.timestamp).some
    /\ last_call.args.recency_duration_sec > 0
    /\ last_call.args.block_timestamp - parse(last_call.args.timestamp).value
           = last_call.args.recency_duration_sec * NANOS_PER_SEC
    /\ deposits[last_call.saga].stage = "priced"

\* C8: a transfer notification of the USDC contract with a message reports the whole
\* amount unused, creates no promise and changes nothing in the unit; one with an
\* empty message reports 0 unused and starts one deposit: the oracle's get_price_data,
\* then get_asset_prices_callback, then process_deposit_with_prices for the sender and
\* the amount
C8_MessageRejectsDeposit ==
    [][ (last_call'.op = "ft_on_transfer" /\ last_call'.caller = USDC_CONTRACT)
        => /\ last_call'.outcome = "ok"
           /\ UNCHANGED cvars
           /\ IF last_call'.args.msg # ""
              THEN /\ last_call'.value = ToString(last_call'.args.amount)
                   /\ last_call'.promises = << >>
                   /\ UNCHANGED tvars
              ELSE /\ last_call'.value = "0"
                   /\ Len(last_call'.promises) = 1
                   /\ last_call'.promises[1].receiver_id = ORACLE_CONTRACT
                   /\ last_call'.promises[1].method = "get_price_data"
                   /\ last_call'.promises[1].callback.then.method
                          = "process_deposit_with_prices"
                   /\ last_call'.promises[1].callback.then.args
                          = <<last_call'.args.sender_id, last_call'.args.amount>>
                   /\ Len(deposits') = Len(deposits) + 1
                   /\ deposits'[Len(deposits')].stage = "oracle" ]_vars

\* The USDC contract has notified the unit of a transfer with a message, and got the
\* amount back
C8_Witness ==
    /\ last_call.op = "ft_on_transfer"
    /\ last_call.caller = USDC_CONTRACT
    /\ last_call.args.msg # ""
    /\ last_call.args.amount > 0
    /\ last_call.value = ToString(last_call.args.amount)

\* stableAmount * weight / 100 / (multiplier / 10^decimals), rounded down
ExactQuantity(amount, weight, price) ==
    (amount * weight * 10^price[2]) \div (100 * price[1])

RECURSIVE ExactRow(_, _, _, _)
\* the row after every priced asset from asset i on has got its exact quantity
ExactRow(row, i, amount, prices) ==
    IF i > Len(assets) THEN row
    ELSE LET a == assets[i].contract_address
         IN  IF a \notin DOMAIN prices THEN ExactRow(row, i + 1, amount, prices)
             ELSE ExactRow((a :> ((IF a \in DOMAIN row THEN row[a] ELSE 0)
                                  + ExactQuantity(amount, assets[i].weight, prices[a])))
                           @@ row, i + 1, amount, prices)

\* C9: a deposit priced with multipliers above 0 adds to each priced asset's quantity
\* in the depositor's row exactly amount * weight / 100 / price, rounded down
C9_AllocationIsExact ==
    [][ (/\ UnitRan("process_deposit_with_prices")
         /\ last_call'.outcome = "ok"
         /\ \A a \in DOMAIN last_call'.args.prices_result.prices :
                last_call'.args.prices_result.prices[a][1] > 0)
        => user_balances'[last_call'.args.sender_id]
             = ExactRow(IF last_call'.args.sender_id \in DOMAIN user_balances
                        THEN user_balances[last_call'.args.sender_id] ELSE << >>,
                        1, last_call'.args.amount, last_call'.args.prices_result.prices)
      ]_vars

\* The assets of the list of which the row holds a quantity above 0, in list order
HeldAssets(row) ==
    SelectSeq([i \in 1..Len(assets) |-> i],
              LAMBDA i : /\ assets[i].contract_address \in DOMAIN row
                         /\ row[assets[i].contract_address] # 0)

\* The promise is one signing request for the whole quantity the row holds of the
\* asset, to the destination and with the treasury path of the asset's class
SignsWithdrawalOf(promise, asset, row, request) ==
    /\ promise.receiver_id = MPC_CONTRACT_ACCOUNT_ID
    /\ promise.method = "sign"
    /\ promise.callback.method = "sign_callback"
    /\ promise.args.payload.keccak256.build_for_signing = promise.callback.evm_tx_wrapper
    /\ promise.callback.evm_tx_wrapper.to = parse_eth_address(asset.contract_address)
    /\ promise.callback.evm_tx_wrapper.input[5].be_bytes = row[asset.contract_address]
    /\ IF asset.name = "ETH"
       THEN /\ promise.args.path = ETH_TREASURY_PATH
            /\ promise.callback.evm_tx_wrapper.input[3]
                   = parse_eth_address(request.eth_destination)
       ELSE /\ promise.args.path = AURORA_TREASURY_PATH
            /\ promise.callback.evm_tx_wrapper.input[3]
                   = parse_eth_address(request.aurora_destination)

\* C10: withdraw_underlying_assets called by an account without a row panics and
\* creates no promise; called by one with a row it creates, in the order of the asset
\* list, one signing request per asset of which the row holds a quantity above 0, for
\* the whole quantity and the asset's class, and none for any other asset
C10_OneSigningRequestPerHeldAsset ==
    [][ last_call'.op = "withdraw_underlying_assets"
        => IF last_call'.caller \notin DOMAIN user_balances
           THEN /\ last_call'.outcome = "panic"
                /\ last_call'.promises = << >>
                /\ UNCHANGED tvars
           ELSE LET row  == user_balances[last_call'.caller]
                    held == HeldAssets(row)
                IN  /\ last_call'.outcome = "ok"
                    /\ Len(last_call'.promises) = Len(held)
                    /\ \A k \in 1..Len(held) :
                           SignsWithdrawalOf(last_call'.promises[k], assets[held[k]],
                                             row, last_call'.args) ]_vars

\* A withdrawal has issued a signing request for an ETH asset and one for another
\* asset
C10_Witness ==
    /\ last_call.op = "withdraw_underlying_assets"
    /\ last_call.outcome = "ok"
    /\ \E k \in 1..Len(last_call.promises) :
           last_call.promises[k].args.path = ETH_TREASURY_PATH
    /\ \E k \in 1..Len(last_call.promises) :
           last_call.promises[k].args.path = AURORA_TREASURY_PATH

\* C11: withdraw_underlying_assets sets to 0 the caller's quantity of every asset it
\* asks a signature for, in the call that creates the signing requests, all of them
\* still pending; a sign_callback that gets a failure panics: it changes neither the
\* ledger nor total_assets, creates no promise and pushes no signed transaction
C11_FailedSigningIsNotCompensated ==
    [][ /\ (last_call'.op = "withdraw_underlying_assets" /\ last_call'.outcome = "ok")
           => LET held == HeldAssets(user_balances[last_call'.caller])
              IN  /\ \A k \in 1..Len(held) :
                         /\ user_balances'[last_call'.caller]
                                [assets[held[k]].contract_address] = 0
                         /\ signs'[Len(signs) + k].stage = "pending"
                         /\ signs'[Len(signs) + k].promise = last_call'.promises[k]
                  /\ Len(signs') = Len(signs) + Len(held)
                  /\ latest_signed_txs' = latest_signed_txs
        /\ (UnitRan("sign_callback") /\ ~last_call'.args.ok)
           => /\ last_call'.outcome = "panic"
              /\ last_call'.promises = << >>
              /\ signs'[last_call'.saga].stage = "done"
              /\ \A j \in 1..Len(signs) : signs'[j].promise = signs[j].promise
              /\ Len(signs') = Len(signs)
              /\ UNCHANGED cvars ]_vars

\* A signing request of a withdrawal has failed: the caller's row holds 0 of every
\* asset of the list and no signed transaction is recorded
C11_Witness ==
    /\ last_call.op = "sign_callback"
    /\ last_call.caller = TOKEN
    /\ ~last_call.args.ok
    /\ last_call.outcome = "panic"
    /\ HeldAssets(user_balances[signs[last_call.saga].caller]) = << >>
    /\ latest_signed_txs = << >>

\* C12: withdraw_in_usdc(amount) called by an account without a row in the ledger
\* panics and creates no promise; called by an account with a row it creates exactly
\* one promise, ft_transfer on the USDC contract, of exactly amount to the caller; in
\* both cases it changes nothing in the unit
C12_WithdrawInUsdcTransfersToCaller ==
    [][ last_call'.op = "withdraw_in_usdc"
        => /\ UNCHANGED tvars
           /\ IF last_call'.caller \notin DOMAIN user_balances
              THEN /\ last_call'.outcome = "panic"
                   /\ last_call'.promises = << >>
              ELSE /\ last_call'.outcome = "ok"
                   /\ Len(last_call'.promises) = 1
                   /\ last_call'.promises[1].receiver_id = USDC_CONTRACT
                   /\ last_call'.promises[1].method = "ft_transfer"
                   /\ last_call'.promises[1].args.receiver_id = last_call'.caller
                   /\ last_call'.promises[1].args.amount = last_call'.args ]_vars

\* An account with a row has called withdraw_in_usdc while another account has none
C12_Witness ==
    /\ last_call.op = "withdraw_in_usdc"
    /\ last_call.outcome = "ok"
    /\ last_call.caller \in DOMAIN user_balances
    /\ last_call.args > 0
    /\ Users \ DOMAIN user_balances # {}

----------------------------------------------------------------------------
(* Claims about get_funds *)

\* The (prefix, fund) pairs at the 0-based positions from .. to - 1 of the registry
FundsWindow(from, to) ==
    [ i \in 1..(to - from) |-> << funds[from + i].key, funds[from + i].value >> ]

\* C13: get_funds(from_index, limit) with from_index at most the size of the
\* registry returns the pairs at positions from_index .. min(from_index + limit,
\* size) - 1 in insertion order, for every limit: one that reaches past the end is
\* cut at the end and is no error
C13_GetFundsReturnsWindow ==
    [][ (/\ last_call'.op = "get_funds"
         /\ BNCmp(last_call'.args.from_index, BNFromNat(Len(funds))) <= 0)
        => /\ last_call'.outcome = "ok"
           /\ last_call'.value
                = FundsWindow(BNToNat(last_call'.args.from_index),
                              min_len(BNAdd(last_call'.args.from_index,
                                            last_call'.args.limit), Len(funds))) ]_vars

\* C14: get_funds(from_index, limit) with from_index at or past the size of the
\* registry returns no pair and does not panic, whatever from_index + limit is
C14_GetFundsPastEndIsEmpty ==
    [][ (/\ last_call'.op = "get_funds"
         /\ BNCmp(last_call'.args.from_index, BNFromNat(Len(funds))) >= 0)
        => /\ last_call'.outcome = "ok"
           /\ last_call'.value = << >> ]_vars

----------------------------------------------------------------------------
(* Claims about the unit's withdrawals and its ledger *)

\* C15 as the specification has it: after a sign_callback that went through, the
\* transaction it assembled is the only one the unit has on record
C15_SingleSignedRecord ==
    [][ (UnitRan("sign_callback") /\ last_call'.outcome = "ok")
        => latest_signed_txs' = << last_call'.value >> ]_vars

\* C15, amended: a sign_callback that went through appends the transaction it
\* assembled, the request's transaction with the signature, to latest_signed_txs and
\* leaves the transactions recorded before in place
C15_SigningAppendsRecord ==
    [][ (UnitRan("sign_callback") /\ last_call'.outcome = "ok")
        => /\ latest_signed_txs' = Append(latest_signed_txs, last_call'.value)
           /\ last_call'.value.tx
                = signs[last_call'.saga].promise.callback.evm_tx_wrapper
           /\ last_call'.value.signature.v = last_call'.args.value.recovery_id ]_vars

\* Two signing requests have been signed and both transactions are on record
C15_Witness ==
    /\ last_call.op = "sign_callback"
    /\ last_call.outcome = "ok"
    /\ Len(latest_signed_txs) = 2
    /\ latest_signed_txs[2] = last_call.value
    /\ latest_signed_txs[1] # latest_signed_txs[2]

\* The unit has been deployed with the assets ETH 60 and AURORA 40, and its one
\* deposit has been priced for both and credited
EndToEndDeposited ==
    /\ TOKEN \in accounts
    /\ assets = << Asset("ETH", "0xAa", 60), Asset("AURORA", "0xbb", 40) >>
    /\ Len(deposits) = 1
    /\ deposits[1].outcome = "ok"
    /\ AllPriced(deposits[1].prices_result)

\* C16: end to end (create_fund with the assets ETH 60 and AURORA 40 and enough
\* attached, the batch goes through, a deposit of 100 is priced and credited, the
\* depositor calls withdraw_underlying_assets and every signing goes through): the
\* depositor's row has an entry for both assets after the deposit, with a quantity
\* above 0 until the withdrawal; after the withdrawal both are 0 and one signing
\* request per asset is out; once all are signed, as many signed transactions are
\* on record as the fund has assets
C16_EndToEndRun ==
    EndToEndDeposited =>
        LET y   == deposits[1].sender_id
            row == user_balances[y]
        IN  /\ y \in DOMAIN user_balances
            /\ \A i \in 1..Len(assets) : assets[i].contract_address \in DOMAIN row
            /\ signs = << >> => \A i \in 1..Len(assets) : row[assets[i].contract_address] > 0
            /\ (/\ last_call.op = "withdraw_underlying_assets"
                /\ last_call.caller = y
                /\ last_call.outcome = "ok")
               => /\ \A i \in 1..Len(assets) : row[assets[i].contract_address] = 0
                  /\ Len(signs) = Len(last_call.promises) => Len(signs) = Len(assets)
            /\ (signs # << >> /\ \A j \in 1..Len(signs) : signs[j].outcome = "ok")
               => /\ Len(latest_signed_txs) = Len(signs)
                  /\ Len(latest_signed_txs) = Len(assets)
            /\ get_fund("fa").some => get_fund("fa").value.metadata.assets = assets

\* The fund is registered, the deposit of 100 has been credited, withdrawn and both
\* transfers are signed
C16_Witness ==
    /\ EndToEndDeposited
    /\ get_fund("fa").some
    /\ deposits[1].amount = 100
    /\ Len(signs) = 2
    /\ \A j \in 1..Len(signs) : signs[j].outcome = "ok"
    /\ Len(latest_signed_txs) = 2
    /\ \A i \in 1..Len(assets) :
           user_balances[deposits[1].sender_id][assets[i].contract_address] = 0

\* The row of an account in a ledger, if it has one
RowOf(ledger, y) == IF y \in DOMAIN ledger THEN Some(ledger[y]) ELSE None

Outstanding ==
    \/ \E i \in 1..Len(deposits) : deposits[i].stage \in {"oracle", "priced"}
    \/ \E j \in 1..Len(signs) : signs[j].stage = "pending"

\* C18: while a price query or a signing request of the unit is outstanding, the
\* ledger, total_assets and latest_signed_txs change only when a pending continuation
\* (process_deposit_with_prices, sign_callback) runs: no other operation changes them
C18_NothingRacesPendingContinuation ==
    [][ (/\ Outstanding
         /\ <<user_balances, total_assets, latest_signed_txs>>'
                # <<user_balances, total_assets, latest_signed_txs>>)
        => \/ UnitRan("process_deposit_with_prices")
           \/ UnitRan("sign_callback") ]_vars

----------------------------------------------------------------------------
(* Claims about the registry *)

\* C19: the weights of the assets of every fund in the registry sum to exactly 100,
\* as integers, whatever weights of 0..255 create_fund was given and summed in a u8
C19_RegisteredWeightsSumTo100 ==
    \A i \in 1..Len(funds) : SumWeights(funds[i].value.metadata.assets) = 100

----------------------------------------------------------------------------
(* Claims about the completion of sagas and deposits *)

\* Saga i has had its completion callback, once, with one of the two outcomes: the
\* fund is on record under the saga's prefix and the callback returned true, or the
\* callback issued its one transfer and returned false
SagaEnded(i) ==
    /\ sagas[i].stage = "done"
    /\ sagas[i].callback_runs = 1
    /\ \/ /\ sagas[i].ret = "true"
          /\ sagas[i].refunds = 0
          /\ get_fund(sagas[i].prefix) # None
          /\ get_fund(sagas[i].prefix).value.token_address = sagas[i].token_address
       \/ /\ sagas[i].ret = "false"
          /\ sagas[i].refunds = 1
          /\ sagas[i].inserts = 0

----------------------------------------------------------------------------
(* Claims about total_assets and the ledger under deposits and withdrawals *)

RECURSIVE SumOfProcessed(_)
\* the sum of the amounts of the first n deposits that process_deposit_with_prices
\* has completed without a panic
SumOfProcessed(n) ==
    IF n = 0 THEN 0
    ELSE SumOfProcessed(n - 1)
         + (IF deposits[n].outcome = "ok" THEN deposits[n].amount ELSE 0)

\* C22: in every reachable state of the unit, total_assets is the sum of the amounts
\* of the deposits whose processing completed successfully: a successful deposit adds
\* its amount, and no failed deposit, withdraw_in_usdc, withdraw_underlying_assets or
\* sign_callback changes it
C22_TotalIsSumOfProcessedDeposits ==
    total_assets = SumOfProcessed(Len(deposits))

\* two deposits of different amounts are processed and both kinds of withdrawal and
\* a signing callback have run since
C22_Witness ==
    /\ Len(deposits) = 2
    /\ deposits[1].outcome = "ok" /\ deposits[2].outcome = "ok"
    /\ deposits[1].amount # deposits[2].amount
    /\ total_assets = deposits[1].amount + deposits[2].amount
    /\ \E j \in 1..Len(signs) : signs[j].stage = "done"
    /\ last_call.op = "withdraw_in_usdc" /\ last_call.outcome = "ok"

\* total_supply of the record registered under prefix in the registry reg, 0 when
\* there is none
RegisteredSupply(reg, prefix) ==
    LET i == IndexOfKey(reg, prefix, 1)
    IN  IF i = 0 THEN 0 ELSE reg[i].value.total_supply

\* C23: once the fund of prefix "fa" is registered with its unit at TOKEN, a deposit
\* that the unit processes successfully raises total_supply of the fund's record in
\* the factory's registry by the amount deposited
C23_DepositRaisesRegisteredSupply ==
    [][ \A i \in 1..Len(deposits) :
            ( /\ get_fund("fa") # None
              /\ get_fund("fa").value.token_address = TOKEN
              /\ deposits[i].stage = "priced"
              /\ deposits'[i].outcome = "ok" )
            => RegisteredSupply(funds', "fa")
                   = RegisteredSupply(funds, "fa") + deposits[i].amount ]_vars

RECURSIVE DepositedBy(_, _)
\* the sum of the amounts of the first n deposits that are those of account y and
\* were processed successfully
DepositedBy(y, n) ==
    IF n = 0 THEN 0
    ELSE DepositedBy(y, n - 1)
         + (IF deposits[n].sender_id = y /\ deposits[n].outcome = "ok"
            THEN deposits[n].amount ELSE 0)

\* C24: withdraw_in_usdc looks for the caller's row, not at what the row holds: for
\* every amount and every caller with a row (also an amount above all the caller
\* ever deposited, also a row of zeros) the call goes through, the ft_transfer of
\* the amount to the caller is issued, and the ledger and total_assets stay as they were
C24_WithdrawInUsdcChecksPresenceOnly ==
    [][ ( /\ last_call'.op = "withdraw_in_usdc"
          /\ last_call'.caller \in DOMAIN user_balances )
        => /\ last_call'.outcome = "ok"
           /\ Len(last_call'.promises) = 1
           /\ last_call'.promises[1].method = "ft_transfer"
           /\ last_call'.promises[1].args
                  = [receiver_id |-> last_call'.caller, amount |-> last_call'.args]
           /\ user_balances' = user_balances
           /\ total_assets' = total_assets ]_vars

\* withdraw_in_usdc has gone through for an amount above all the caller deposited,
\* on a row of zeros
C24_Witness ==
    /\ last_call.op = "withdraw_in_usdc"
    /\ last_call.outcome = "ok"
    /\ last_call.caller \in DOMAIN user_balances
    /\ DepositedBy(last_call.caller, Len(deposits)) > 0
    /\ last_call.args > DepositedBy(last_call.caller, Len(deposits))
    /\ \A a \in DOMAIN user_balances[last_call.caller] :
           user_balances[last_call.caller][a] = 0
    /\ total_assets > 0

\* C25: no entry of the ledger is ever deleted. A depositor's row, and every asset
\* entry in it, that exists before a step (a deposit, withdraw_in_usdc,
\* withdraw_underlying_assets, or any callback) exists after it; a withdrawal leaves
\* each quantity as it was or sets it to zero
C25_LedgerEntriesAreNeverDeleted ==
    [][ \A u \in DOMAIN user_balances :
            /\ u \in DOMAIN user_balances'
            /\ \A a \in DOMAIN user_balances[u] :
                   /\ a \in DOMAIN user_balances'[u]
                   /\ (last_call'.op \in {"withdraw_in_usdc", "withdraw_underlying_assets"}
                       => user_balances'[u][a] \in {user_balances[u][a], 0}) ]_vars

\* a depositor's row holds zeros after withdraw_underlying_assets, next to the row
\* of another depositor that holds quantities
C25_Witness ==
    /\ last_call.op = "withdraw_underlying_assets"
    /\ last_call.outcome = "ok"
    /\ last_call.promises # << >>
    /\ DOMAIN user_balances[last_call.caller] # {}
    /\ \A a \in DOMAIN user_balances[last_call.caller] :
           user_balances[last_call.caller][a] = 0
    /\ \E u \in DOMAIN user_balances :
           \E a \in DOMAIN user_balances[u] : user_balances[u][a] > 0

\* Sums of u128 quantities, of which a negative number x stands for 2^128 + x:
\* hi counts the terms at the top of the range, lo adds the representatives up
wide_add(s, x) == [hi |-> s.hi + (IF x < 0 THEN 1 ELSE 0), lo |-> s.lo + x]

wide_le(s, t) == s.hi < t.hi \/ (s.hi = t.hi /\ s.lo <= t.lo)

\* the row process_deposit_with_prices credits for deposit d on its own: the
\* quantities it adds to the depositor's entries
Allocation(d) == credit_assets(<< >>, 1, d.amount, d.prices_result.prices).row

\* the quantity a row holds of the asset at address a, 0 without an entry
AllocatedQuantity(row, a) == IF a \in DOMAIN row THEN row[a] ELSE 0

RECURSIVE CreditedTo(_, _, _)
\* the sum of the quantities of the asset at address a that the first n deposits
\* credited to account y
CreditedTo(y, a, n) ==
    IF n = 0 THEN [hi |-> 0, lo |-> 0]
    ELSE wide_add(CreditedTo(y, a, n - 1),
                  IF deposits[n].sender_id = y /\ deposits[n].outcome = "ok"
                  THEN AllocatedQuantity(Allocation(deposits[n]), a) ELSE 0)

RECURSIVE SignedFor(_, _, _)
\* the sum of the amounts of the first m signing requests that are those of a
\* withdrawal of account y and transfer the asset at address a
SignedFor(y, a, m) ==
    IF m = 0 THEN [hi |-> 0, lo |-> 0]
    ELSE wide_add(SignedFor(y, a, m - 1),
                  IF /\ signs[m].caller = y
                     /\ signs[m].promise.callback.evm_tx_wrapper.to
                            = parse_eth_address(a)
                  THEN signs[m].promise.callback.evm_tx_wrapper.input[5].be_bytes
                  ELSE 0)

\* the signing requests issued for a depositor and an asset add up to no more than
\* what the depositor was credited for the asset
SignedWithinCredited ==
    \A y \in Users : \A i \in 1..Len(assets) :
        wide_le(SignedFor(y, assets[i].contract_address, Len(signs)),
                CreditedTo(y, assets[i].contract_address, Len(deposits)))

\* C26: for every depositor and asset, the amounts of all the signing requests issued
\* for them never add up to more than the quantities credited to the depositor for the
\* asset; withdraw_underlying_assets on a row that holds nothing (no deposit credited
\* since the last withdrawal) issues no signing request
C26_SignedNeverExceedsCredited ==
    /\ []SignedWithinCredited
    /\ [][ ( /\ last_call'.op = "withdraw_underlying_assets"
             /\ last_call'.outcome = "ok"
             /\ \A a \in DOMAIN user_balances[last_call'.caller] :
                    user_balances[last_call'.caller][a] = 0 )
           => last_call'.promises = << >> ]_vars

\* C27: deposits whose price queries are outstanding at the same time lose no update.
\* Whatever the order in which the callbacks of two deposits (of one depositor or of
\* two) run, as long as no withdrawal has taken anything out, every ledger quantity is
\* the sum of what the processed deposits allocate to it and total_assets is the sum of
\* their amounts
C27_ConcurrentDepositsLoseNoUpdate ==
    signs = << >>
    => /\ total_assets = SumOfProcessed(Len(deposits))
       /\ \A y \in Users : \A i \in 1..Len(assets) :
              /\ CreditedTo(y, assets[i].contract_address, Len(deposits)).hi = 0
              /\ AllocatedQuantity(IF y \in DOMAIN user_balances
                                   THEN user_balances[y] ELSE << >>,
                                   assets[i].contract_address)
                     = CreditedTo(y, assets[i].contract_address, Len(deposits)).lo

\* two deposits of one depositor were outstanding together and the first was
\* processed after the second; the row holds the sum of both allocations
C27_Witness ==
    /\ signs = << >>
    /\ Len(deposits) = 2
    /\ deposits[1].sender_id = deposits[2].sender_id
    /\ deposits[1].amount # deposits[2].amount
    /\ deposits[1].outcome = "ok" /\ deposits[2].outcome = "ok"
    /\ last_call.op = "process_deposit_with_prices" /\ last_call.saga = 1
    /\ \A i \in 1..Len(assets) :
           user_balances[deposits[1].sender_id][assets[i].contract_address]
               = Allocation(deposits[1])[assets[i].contract_address]
                 + Allocation(deposits[2])[assets[i].contract_address]

\* Deposit i has the depositor's ledger credited for it, or its amount was reported
\* unused to the USDC contract, which returns what is unused to the sender (no
\* callback of the chain creates a transfer of its own)
DepositSettled(i) ==
    \/ deposits[i].outcome = "ok"
    \/ deposits[i].unused = deposits[i].amount

\* C28: every deposit the unit accepts (ft_on_transfer reports nothing unused) ends
\* with the depositor's ledger credited for it or with the amount returned to the
\* sender; an oracle failure or a stale price after the acceptance does not leave the
\* unit with the amount and no credit on record. The host runs every receipt of the
\* chain, and a chain that has run to its end changes no more: the deposit it leaves
\* is credited or returned
C28_AcceptedDepositIsCreditedOrReturned ==
    [](\A i \in 1..Len(deposits) : deposits[i].stage = "done" => DepositSettled(i))

(***************************************************************************)
(* IndexFundToken, the owner-managed variant of the unit:                  *)
(* src/tests/src/token.rs.  Its state is total_assets, assets and owner_id; *)
(* the owner adds and removes assets one at a time.                        *)
(***************************************************************************)

\* the variant's list holds at most MaxOwnedAssets assets
MaxOwnedAssets == 3

U32_BITS == 32

\* the assets passed to add_asset: weights below, inside and above 1..100
OwnedWeights == {0, 50, 100, 101}

OwnedAssetArgs ==
    { Asset(n, "bob.near", w) : n \in {"Test Token", "Other"}, w \in OwnedWeights }

\* IndexFundToken::new: no asset, a total of 0, the owner as given
IndexFundToken_new(owner) ==
    [ total_assets |-> 0, assets |-> << >>, owner_id |-> owner ]

\* assert_owner: the predecessor is the owner
assert_owner(predecessor) == predecessor = owner_id

\* a - b in u128: a difference below 0 panics in a build with overflow checks and
\* wraps in one without
u128_sub(a, b) ==
    IF a >= 0 /\ a < b
    THEN IF overflow_checks THEN Panic("attempt to subtract with overflow")
         ELSE [tag |-> "ok", val |-> a - b]
    ELSE [tag |-> "ok", val |-> a - b]

\* u32::try_from(u64)
u32_try_from(a) == IF BNBitLen(a) <= U32_BITS THEN Some(BNToNat(a)) ELSE None

\* Vector::swap_remove(index): the last element takes the place of the removed one
swap_remove(s, index) ==
    [ j \in 1..(Len(s) - 1) |-> IF j = index + 1 THEN s[Len(s)] ELSE s[j] ]

\* add_asset without the owner check
add_asset_any_caller(predecessor, asset) ==
    IF ~(asset.weight > 0 /\ asset.weight <= 100)
    THEN Panic("Weight must be between 1 and 100")
    ELSE LET sum == u128_add(total_assets, asset.weight)
         IN  IF IsPanic(sum) THEN sum
             ELSE [ tag |-> "ok",
                    assets |-> Append(assets, Asset(asset.name, asset.contract_address,
                                                    asset.weight)),
                    total_assets |-> sum.val ]

\* add_asset: the list and the total after the call, or the panic
add_asset(predecessor, asset) ==
    IF ~assert_owner(predecessor) THEN Panic("Only the owner can call this method")
    ELSE IF ~(asset.weight > 0 /\ asset.weight <= 100)
    THEN Panic("Weight must be between 1 and 100")
    ELSE LET sum == u128_add(total_assets, asset.weight)
         IN  IF IsPanic(sum) THEN sum
             ELSE [ tag |-> "ok",
                    assets |-> Append(assets, Asset(asset.name, asset.contract_address,
                                                    asset.weight)),
                    total_assets |-> sum.val ]

\* remove_asset that leaves the total as it was
remove_asset_keeps_total(predecessor, index) ==
    IF ~assert_owner(predecessor) THEN Panic("Only the owner can call this method")
    ELSE IF ~u32_try_from(index).some THEN Panic("Index is too large")
    ELSE IF ~(u32_try_from(index).value < Len(assets)) THEN Panic("Invalid asset index")
    ELSE [ tag |-> "ok",
           assets |-> swap_remove(assets, u32_try_from(index).value),
           total_assets |-> total_assets ]

\* remove_asset: the list and the total after the call, or the panic
remove_asset(predecessor, index) ==
    IF ~assert_owner(predecessor) THEN Panic("Only the owner can call this method")
    ELSE IF ~u32_try_from(index).some THEN Panic("Index is too large")
    ELSE IF ~(u32_try_from(index).value < Len(assets)) THEN Panic("Invalid asset index")
    ELSE LET index_u32 == u32_try_from(index).value
             diff      == u128_sub(total_assets, assets[index_u32 + 1].weight)
         IN  IF IsPanic(diff) THEN diff
             ELSE [ tag |-> "ok",
                    assets |-> swap_remove(assets, index_u32),
                    total_assets |-> diff.val ]

\* the views
get_total_assets == total_assets

get_number_of_assets == Len(assets)

OwnedInit ==
    /\ overflow_checks \in BOOLEAN
    /\ usize_bits = WASM32_USIZE_BITS
    /\ fund_creation_deposit = 2 * minimum_needed
    /\ funds = << >>
    /\ accounts = {}
    /\ sagas = << >>
    /\ \E owner \in Users :
         /\ assets = IndexFundToken_new(owner).assets
         /\ total_assets = IndexFundToken_new(owner).total_assets
         /\ owner_id = IndexFundToken_new(owner).owner_id
    /\ user_balances = << >>
    /\ latest_signed_txs = << >>
    /\ deposits = << >>
    /\ signs = << >>
    /\ last_call = Returned("new", 0, "none", << >>)

\* An account calls add_asset
AddAsset(caller, asset) ==
    LET r    == add_asset(caller, asset)
        args == [asset |-> asset]
    IN  IF IsPanic(r)
        THEN /\ last_call' = Called(Panicked("add_asset", r.msg), caller, args)
             /\ UNCHANGED <<build, fvars, tvars>>
        ELSE /\ Len(assets) < MaxOwnedAssets
             /\ assets' = r.assets
             /\ total_assets' = r.total_assets
             /\ last_call' = Called(Returned("add_asset", 0, "none", << >>), caller, args)
             /\ UNCHANGED <<build, fvars, owner_id, user_balances, latest_signed_txs,
                            deposits, signs>>

\* An account calls remove_asset
RemoveAsset(caller, index) ==
    LET r    == remove_asset(caller, index)
        args == [index |-> index]
    IN  IF IsPanic(r)
        THEN /\ last_call' = Called(Panicked("remove_asset", r.msg), caller, args)
             /\ UNCHANGED <<build, fvars, tvars>>
        ELSE /\ assets' = r.assets
             /\ total_assets' = r.total_assets
             /\ last_call' = Called(Returned("remove_asset", 0, "none", << >>),
                                    caller, args)
             /\ UNCHANGED <<build, fvars, owner_id, user_balances, latest_signed_txs,
                            deposits, signs>>

OwnedNext ==
    \/ \E caller \in Users, asset \in OwnedAssetArgs : AddAsset(caller, asset)
    \/ \E caller \in Users, index \in U64s : RemoveAsset(caller, index)

SpecOwnedToken == OwnedInit /\ [][OwnedNext]_vars

(***************************************************************************)
(* Claims about the owner-managed variant *)
(***************************************************************************)

\* C29: after any sequence of add_asset and remove_asset calls get_total_assets is the
\* sum of the weights of the assets in the list; both views are 0 right after new, a
\* successful add_asset raises get_number_of_assets by 1 and get_total_assets by the
\* weight added, and a successful remove_asset lowers get_number_of_assets by 1
C29_TotalAndNumberFollowTheList ==
    /\ [](/\ get_total_assets = SumWeights(assets)
          /\ (last_call.op = "new" =>
                 (get_total_assets = 0 /\ get_number_of_assets = 0)))
    /\ [][/\ ((last_call'.op = "add_asset" /\ last_call'.outcome = "ok") =>
                 (/\ get_number_of_assets' = get_number_of_assets + 1
                  /\ get_total_assets' =
                        get_total_assets + last_call'.args.asset.weight))
           /\ ((last_call'.op = "remove_asset" /\ last_call'.outcome = "ok") =>
                 get_number_of_assets' = get_number_of_assets - 1)]_vars

\* a remove_asset went through on a list of three and left two assets
C29_Witness ==
    /\ last_call.op = "remove_asset"
    /\ last_call.outcome = "ok"
    /\ last_call.args.index = BNFromNat(0)
    /\ get_number_of_assets = 2
    /\ get_total_assets = 150

\* C30: add_asset and remove_asset called by an account other than the owner panic
\* with "Only the owner can call this method" and leave the list and total_assets as
\* they were
C30_OnlyTheOwnerChangesTheList ==
    [][(last_call'.op \in {"add_asset", "remove_asset"} /\ last_call'.caller # owner_id) =>
          /\ last_call'.outcome = "panic"
          /\ last_call'.value = "Only the owner can call this method"
          /\ UNCHANGED <<assets, total_assets>>]_vars

\* an account other than the owner asked to remove an asset that is in the list
C30_Witness ==
    /\ last_call.op = "remove_asset"
    /\ last_call.caller # owner_id
    /\ last_call.outcome = "panic"
    /\ last_call.args.index = BNFromNat(0)
    /\ Len(assets) > 0

====
